---- MODULE Spec2Model ----
(***************************************************************************)
(* MentorMe-AI: the continuous-recording session (SessionRecorder.tsx),    *)
(* the Gemini analysis client (geminiService.ts) and the report store      *)
(* (services/storage) as state machines.                                   *)
(*                                                                         *)
(* Scheduling model: the browser's single-threaded event loop.  Every      *)
(* action below is one task of that loop: an event handler, a timer        *)
(* callback, or the continuation of an async function after an await.      *)
(* React state updates made inside one task, the re-render they cause and  *)
(* the effects that re-run because of it are part of that task's action.   *)
(***************************************************************************)
EXTENDS Integers, Sequences, FiniteSets, TLC

\* ------------------------------------------------------------------ bounds

\* SESSION_DURATION / 1000 (600 in SessionRecorder.tsx:18), scaled down so
\* that the countdown can be explored exhaustively.
SessionSeconds == 3
\* 10 Minutes in milliseconds
SESSION_DURATION == 10 * 60 * 1000
\* The seconds of the countdown that one modelled second stands for.
SecondsPerTick == (SESSION_DURATION \div 1000) \div SessionSeconds
\* Cap on analyzeFrame calls of one session that are in flight together.
MaxInFlight == 2
\* Cap on the length of the point history of one session.
MaxPoints == 2
\* Cap on the number of reports saved in the storage specification.
MaxReports == 7

\* --------------------------------------------------------- program constants

\* saveReportMetadata keeps this many reports (storage, "Enforce 5 video limit").
REPORT_LIMIT == 5

SAFE == "SAFE"
UNSAFE == "UNSAFE"
UNKNOWN == "UNKNOWN"

NoError == "null"
ERR_CAMERA == "Camera access denied. Please allow permissions to use the app."
ERR_SAFETY == "SAFETY ALERT: Toxic or unsafe content detected. Session terminated immediately."
ERR_FAILED == "Failed to process session data."
MSG_INIT == "Initializing mentor AI..."

\* ============================================================ geminiService

\* A response text is a sequence of tokens.  "fence" is a Markdown code fence,
\* "prose" any run of characters without a brace, "body" the members of a JSON
\* object (the field values travel beside the text, in the response's `fields`),
\* "null" the JSON literal null.
Tokens == {"fence", "prose", "{", "}", "body", "null"}

\* jsonText.replace(/```json\n?|```/g, '').trim()
StripFences(text) == SelectSeq(text, LAMBDA t : t # "fence")

\* String.prototype.indexOf / lastIndexOf, 0-based, -1 when absent.
IndexOf(text, tok) ==
  IF \E i \in 1..Len(text) : text[i] = tok
  THEN (CHOOSE i \in 1..Len(text) : text[i] = tok /\ \A j \in 1..(i - 1) : text[j] # tok) - 1
  ELSE -1

LastIndexOf(text, tok) ==
  IF \E i \in 1..Len(text) : text[i] = tok
  THEN (CHOOSE i \in 1..Len(text) : text[i] = tok /\ \A j \in (i + 1)..Len(text) : text[j] # tok) - 1
  ELSE -1

\* String.prototype.substring(a, b): 0-based, end exclusive, arguments swapped
\* when a > b.
Substring(text, a, b) ==
  LET lo == IF a <= b THEN a ELSE b
      hi == IF a <= b THEN b ELSE a
  IN SubSeq(text, lo + 1, hi)

\* "Extract JSON object if there is extra text"
ExtractObject(text) ==
  LET startIndex == IndexOf(text, "{")
      endIndex == LastIndexOf(text, "}")
  IN IF startIndex # -1 /\ endIndex # -1
     THEN Substring(text, startIndex, endIndex + 1)
     ELSE text

EmptyFields ==
  [detectedActivity |-> "", postureScore |-> 0, focusScore |-> 0,
   lightingScore |-> 0, suggestion |-> "", safetyStatus |-> ""]

\* JSON.parse: "object" with the members it carries, "null", or "error".
\* An absent member and a falsy one ("" or 0) read the same under `||`.
JsonParse(text, fields) ==
  IF text = <<"{", "body", "}">> THEN [kind |-> "object", fields |-> fields]
  ELSE IF text = <<"{", "}">> THEN [kind |-> "object", fields |-> EmptyFields]
  ELSE IF text = <<"null">> THEN [kind |-> "null", fields |-> EmptyFields]
  ELSE [kind |-> "error", fields |-> EmptyFields]

OrStr(v, dflt) == IF v = "" THEN dflt ELSE v
OrNum(v, dflt) == IF v = 0 THEN dflt ELSE v

ConnectionErrorPoint ==
  [detectedActivity |-> "Connection Error", postureScore |-> 0, focusScore |-> 0,
   lightingScore |-> 0,
   suggestion |-> "I'm having trouble seeing the screen. Checking connection...",
   safetyStatus |-> UNKNOWN]

PointOfResult(f) ==
  [detectedActivity |-> OrStr(f.detectedActivity, "Analyzing screen content..."),
   postureScore |-> OrNum(f.postureScore, 5),
   focusScore |-> OrNum(f.focusScore, 5),
   lightingScore |-> OrNum(f.lightingScore, 5),
   suggestion |-> OrStr(f.suggestion, "I am reading your screen, please wait..."),
   safetyStatus |-> OrStr(f.safetyStatus, UNKNOWN)]

Resolved(v) == [settled |-> "resolved", value |-> v]
\* A rejected promise carries no value the callers read; the field keeps the
\* record's shape.
Rejected == [settled |-> "rejected", value |-> ConnectionErrorPoint]

\* analyzeFrame: the promise it returns, for a build with or without API_KEY
\* and a remote call that throws or answers `response.text`.
AnalyzeFrame(apiKey, response) ==
  IF ~apiKey THEN Rejected
  ELSE IF response.throws THEN Resolved(ConnectionErrorPoint)
  ELSE LET text == IF response.text = <<>> THEN <<"{", "}">> ELSE response.text
           parsed == JsonParse(ExtractObject(StripFences(text)), response.fields)
       IN \* result is null: reading result.detectedActivity throws a TypeError,
          \* which the outer catch turns into the connection-error point
          IF parsed.kind = "null" THEN Resolved(ConnectionErrorPoint)
          ELSE Resolved(PointOfResult(parsed.fields))

\* The two copies of the service: src/services/geminiService.ts, and the one
\* of the Downloads/mentorme-ai build.
GemServices == {"services/geminiService.ts", "Downloads/mentorme-ai"}

\* The catch block of the Downloads copy: "Return a neutral fallback".
FallbackPoint ==
  [detectedActivity |-> "", postureScore |-> 0, focusScore |-> 0, lightingScore |-> 0,
   suggestion |-> "Analysis momentarily unavailable.", safetyStatus |-> UNKNOWN]

\* analyzeFrame of the Downloads copy: JSON.parse(response.text || "{}") with
\* no clean-up of the text; a parse error, like a failed remote call or a null
\* result, ends in the catch block.  Its point has no detectedActivity.
AnalyzeFrameDownloads(apiKey, response) ==
  IF ~apiKey THEN Rejected
  ELSE IF response.throws THEN Resolved(FallbackPoint)
  ELSE LET text == IF response.text = <<>> THEN <<"{", "}">> ELSE response.text
           parsed == JsonParse(text, response.fields)
       IN IF parsed.kind \in {"null", "error"} THEN Resolved(FallbackPoint)
          ELSE Resolved([detectedActivity |-> "",
                         postureScore |-> OrNum(parsed.fields.postureScore, 5),
                         focusScore |-> OrNum(parsed.fields.focusScore, 5),
                         lightingScore |-> OrNum(parsed.fields.lightingScore, 5),
                         suggestion |-> OrStr(parsed.fields.suggestion, "Processing..."),
                         safetyStatus |-> OrStr(parsed.fields.safetyStatus, UNKNOWN)])

\* The model of generateContent's answer to the summary request.
NullSummary == [kind |-> "null", keyInsights |-> <<>>, overallScore |-> 0]
NoDataSummary == [kind |-> "object", keyInsights |-> <<"No data collected">>, overallScore |-> 0]
PlaceholderSummary ==
  [kind |-> "object", keyInsights |-> <<"Could not generate summary">>, overallScore |-> 0]
SummaryRejected == [settled |-> "rejected", value |-> NullSummary]

\* generateFinalSummary: the API-key check and the remote call are outside
\* any try block; only JSON.parse is guarded.
GenerateFinalSummary(apiKey, points, response) ==
  IF ~apiKey THEN SummaryRejected
  ELSE IF Len(points) = 0 THEN Resolved(NoDataSummary)
  ELSE IF response.throws THEN SummaryRejected
  ELSE LET text == IF response.text = <<>> THEN <<"{", "}">> ELSE response.text
           parsed == JsonParse(ExtractObject(StripFences(text)), EmptyFields)
       IN IF parsed.kind = "error" THEN Resolved(PlaceholderSummary)
          ELSE IF parsed.kind = "null" THEN Resolved(NullSummary)
          ELSE IF ExtractObject(StripFences(text)) = <<"{", "}">>
               THEN Resolved([kind |-> "object", keyInsights |-> <<>>, overallScore |-> 0])
               ELSE Resolved([kind |-> "object", keyInsights |-> response.keyInsights,
                              overallScore |-> response.overallScore])

\* ================================================================== storage

Emails == {"a@gmail.com", "b@gmail.com"}
NoEmail == ""
IdOf(email) == IF email = "a@gmail.com" THEN "ua" ELSE "ub"
FirstNames == {"Ann", "Bea"}
UserOf(email) == [id |-> IdOf(email), email |-> email, firstName |-> "Ann"]
\* The User objects handed to saveUser.
Users == {[UserOf(e) EXCEPT !.firstName = n] : e \in Emails, n \in FirstNames}
NoUser == [id |-> "", email |-> "", firstName |-> ""]
NoKey == 0

\* getUser: the user stored under the current e-mail, or null.
GetUser(db, email) ==
  IF email = NoEmail THEN NoUser
  ELSE IF email \in DOMAIN db THEN db[email] ELSE NoUser

\* checkUserExists: !!db[email]
CheckUserExists(db, email) == email \in DOMAIN db

\* saveUser with a storage that keeps the entry an e-mail already has.
SaveUserKeepsFirst(db, user) ==
  [db |-> [x \in DOMAIN db \cup {user.email} |-> IF x \in DOMAIN db THEN db[x] ELSE user],
   current |-> user.email]

\* saveUser: what it writes under USERS_DB_KEY and CURRENT_USER_EMAIL_KEY.
SaveUserIn(db, user) ==
  [db |-> [x \in DOMAIN db \cup {user.email} |-> IF x = user.email THEN user ELSE db[x]],
   current |-> user.email]

\* loginUser: what it leaves under CURRENT_USER_EMAIL_KEY and what it returns.
LoginUserIn(db, current, email) ==
  IF email \in DOMAIN db THEN [current |-> email, value |-> db[email]]
  ELSE [current |-> current, value |-> NoUser]

\* getReportsMetadata: the stored reports of the current user.
GetReportsMetadata(store, db, email) ==
  LET currentUser == GetUser(db, email)
  IN IF currentUser = NoUser THEN <<>>
     ELSE SelectSeq(store, LAMBDA r : r.userId = currentUser.id)

\* saveReportMetadata: what it writes under REPORTS_KEY and the blobs it asks
\* deleteVideoBlob to remove, in order.
SaveReportMetadata(store, db, email, report) ==
  LET reports == <<report>> \o GetReportsMetadata(store, db, email)
      over == Len(reports) > REPORT_LIMIT
      reportsToRemove == IF over THEN SubSeq(reports, REPORT_LIMIT + 1, Len(reports)) ELSE <<>>
      kept == IF over THEN SubSeq(reports, 1, REPORT_LIMIT) ELSE reports
      withKey == SelectSeq(reportsToRemove, LAMBDA r : r.videoBlobKey # NoKey)
  IN [store |-> kept,
      deleted |-> {withKey[i].videoBlobKey : i \in 1..Len(withKey)}]

\* ==================================================================== state

VARIABLES
  \* --- the build
  apiKey,           \* process.env.API_KEY is non-empty (fixed at build time)
  \* --- one call of analyzeFrame
  gemService,       \* the copy of the Gemini service the call goes to
  gemResponse,      \* what generateContent does for this call
  gemPromise,       \* the promise analyzeFrame returned, once called
  \* --- one call of generateFinalSummary
  sumRequest,       \* the points passed in and what generateContent does
  sumPromise,       \* the promise generateFinalSummary returned, once called
  \* --- one call of captureFrame
  captureInput,     \* the component, its refs and the video's state at the call
  captureResult,    \* what the call returned and the canvas size it left
  \* --- storage: localStorage and the IndexedDB video store
  usersDB,          \* USERS_DB_KEY: e-mail -> User
  currentEmail,     \* CURRENT_USER_EMAIL_KEY, NoEmail when absent
  reportsStore,     \* REPORTS_KEY: the stored SessionReport list
  videoStore,       \* keys present in the IndexedDB 'videos' store
  deleteRequests,   \* keys deleteVideoBlob was called with
  nextId,           \* number of identifiers crypto.randomUUID has handed out
  \* --- SessionRecorder: refs
  mounted,          \* the component is mounted
  camera,           \* getUserMedia promise: "pending", "granted", "denied"
  streamRef,        \* streamRef.current is a stream (TRUE) or null (FALSE)
  tracks,           \* state of each track of the acquired stream
  mediaRecorder,    \* mediaRecorderRef.current: "null", "recording", "inactive"
  onstop,           \* mediaRecorder.onstop and the values its closure captured
  \* --- SessionRecorder: React state
  isRecording, timeLeft, analysisPoints, currentSuggestion, lastAnalysis,
  isProcessing, error, liveContext,
  \* --- SessionRecorder: timers and calls in flight
  timerClosure,     \* the countdown interval and the render its callback closes over
  inFlight,         \* analyzeFrame calls awaiting their result
  stopPhase,        \* position of the async onstop handler
  reportId,         \* the handler's reportId
  pendingReport,    \* the report the handler has assembled
  completed,        \* the reports onComplete was invoked with, in order
  \* --- history (not read by any action's guard)
  unsafeHandled,    \* handleUnsafeContent has run in this session
  stopCause,        \* what called stopRecording: "none", "user", "timeout"
  pointsAtStop,     \* Len(analysisPoints) when stopRecording ran
  summaryFailed,    \* the summary request of the onstop handler was rejected
  saveLog,          \* every report saveReportMetadata stored, newest first
  videoFailed,      \* saveVideoBlob of the onstop handler was rejected
  \* --- text to speech (the TTS Logic effect of a session component)
  ttsBuild,         \* the session component that is mounted
  isVoiceEnabled,   \* React state
  availableVoices,  \* getVoices() has returned voices (TRUE) or [] so far (FALSE)
  speechQueue,      \* window.speechSynthesis: texts speaking or queued, in order
  spoken,           \* number of speechSynthesis.speak calls so far
  mutedText,        \* history: currentSuggestion when voice was last disabled
  \* --- CoCreatorSession
  isLive,           \* React state
  isAnalyzing,      \* React state
  sharePending,     \* getDisplayMedia calls that have not settled
  shareStreams,     \* the display streams acquired so far: state of each one's track
  shareRef,         \* streamRef.current: index into shareStreams, 0 for null
  videoSrc,         \* srcObject of the mounted <video>: index into shareStreams, 0 for none
  videoReady,       \* that video has loaded metadata (readyState >= 2, size > 0)
  warmups,          \* pending setTimeout(() => performAnalysis(), 2000) timers
  interval,         \* the setInterval of the analysis effect and the time since it was set
  lastRejected,     \* history: why getDisplayMedia was last rejected, "none" if never
  \* --- storage: the mentors
  mentorsStore,     \* MENTORS_KEY: absent, or the stored Mentor list
  lastMentorOp,     \* history: the last saveMentor / deleteMentor call
  \* --- storage: the users
  lastUserOp,       \* history: the last saveUser / loginUser / logoutUser call
  \* --- App
  appLoaded,        \* the mount effect has run
  appUser,          \* React state `user`, NoUser for null
  view,             \* React state: the ViewState
  authStep,         \* React state: 'email', 'otp', 'profile'
  pendingEmail,     \* React state
  otpError,         \* React state: an OTP error text is set
  lastSubmit,       \* history: the form last submitted and what was typed in it
  \* --- speech recognition of a session component
  isListening,      \* React state
  recognition,      \* the recognizer in recognitionRef: "idle", "starting", "listening",
                    \* or why it is closing (its end event is still to come)
  orphans,          \* aborted recognizers whose end event is still to come
  \* --- the analysis cycles of a session component
  closureContext,   \* liveContext as captured by the performAnalysis the interval calls
  lastCycle         \* history: whether the last captureFrame of performAnalysis gave a
                    \* frame, and the instruction sent with it

buildVars ==
  <<apiKey, gemService, gemResponse, gemPromise, sumRequest, sumPromise, captureInput,
    captureResult>>
storeVars == <<usersDB, currentEmail, reportsStore, videoStore, deleteRequests, nextId>>
recVars ==
  <<mounted, camera, streamRef, tracks, mediaRecorder, onstop, isRecording, timeLeft,
    analysisPoints, currentSuggestion, lastAnalysis, isProcessing, error, liveContext,
    timerClosure, inFlight, stopPhase, reportId, pendingReport, completed>>
sessionHist == <<unsafeHandled, stopCause, pointsAtStop, summaryFailed>>
histVars == <<sessionHist, saveLog, videoFailed>>
ttsVars == <<ttsBuild, isVoiceEnabled, availableVoices, speechQueue, spoken, mutedText>>
coVars ==
  <<isLive, isAnalyzing, sharePending, shareStreams, shareRef, videoSrc, videoReady, warmups,
    interval, lastRejected>>
mentorVars == <<mentorsStore, lastMentorOp>>
userVars == <<lastUserOp>>
appVars == <<appLoaded, appUser, view, authStep, pendingEmail, otpError, lastSubmit>>
listenVars == <<isListening, recognition, orphans>>
cycleVars == <<closureContext, lastCycle>>
extVars == <<userVars, appVars, listenVars, cycleVars>>
vars == <<buildVars, storeVars, recVars, histVars, ttsVars, coVars, mentorVars, extVars>>

TrackIds == {"video", "audio"}
NoHandler == [set |-> FALSE, points |-> <<>>, timeLeft |-> 0]
NoTimer == [active |-> FALSE, points |-> <<>>, timeLeft |-> 0, isProcessing |-> FALSE]
NoReport ==
  [id |-> 0, userId |-> "", durationSeconds |-> 0, timeline |-> <<>>,
   videoBlobKey |-> NoKey, overallScore |-> 0]

\* The userId prop: App renders the recorder with the logged-in user's id.
RecUserEmail == "a@gmail.com"

StoreInit ==
  /\ usersDB = [e \in {RecUserEmail} |-> UserOf(e)]
  /\ currentEmail = RecUserEmail
  /\ reportsStore = <<>>
  /\ videoStore = {}
  /\ deleteRequests = {}
  /\ nextId = 0

\* The state after the first render and the mount effects: getUserMedia has
\* been called and is pending.
RecIdle ==
  /\ mounted = TRUE
  /\ camera = "pending"
  /\ streamRef = FALSE
  /\ tracks = [t \in TrackIds |-> "none"]
  /\ mediaRecorder = "null"
  /\ onstop = NoHandler
  /\ isRecording = FALSE
  /\ timeLeft = SessionSeconds
  /\ analysisPoints = <<>>
  /\ lastAnalysis = <<>>
  /\ isProcessing = FALSE
  /\ error = NoError
  /\ liveContext = ""
  /\ timerClosure = NoTimer
  /\ inFlight = 0
  /\ stopPhase = "idle"
  /\ reportId = 0
  /\ pendingReport = NoReport
  /\ completed = <<>>

RecInit == RecIdle /\ currentSuggestion = MSG_INIT

\* Speech as SessionRecorder mounts: voice feedback off, nothing spoken.
TtsIdle ==
  /\ ttsBuild = "SessionRecorder"
  /\ isVoiceEnabled = FALSE
  /\ availableVoices = FALSE
  /\ speechQueue = <<>>
  /\ spoken = 0
  /\ mutedText = ""

\* Speech as CoCreatorSession mounts: voice feedback on.
TtsCoIdle ==
  /\ ttsBuild = "CoCreatorSession"
  /\ isVoiceEnabled = TRUE
  /\ availableVoices = FALSE
  /\ speechQueue = <<>>
  /\ spoken = 0
  /\ mutedText = ""

NoInterval == [active |-> FALSE, age |-> 0]

\* CoCreatorSession after its first render.
CoIdle ==
  /\ isLive = FALSE
  /\ isAnalyzing = FALSE
  /\ sharePending = 0
  /\ shareStreams = <<>>
  /\ shareRef = 0
  /\ videoSrc = 0
  /\ videoReady = FALSE
  /\ warmups = 0
  /\ interval = NoInterval
  /\ lastRejected = "none"

\* localStorage without MENTORS_KEY.
MentorsIdle ==
  /\ mentorsStore = [present |-> FALSE, list |-> <<>>]
  /\ lastMentorOp = [op |-> "none", id |-> "", removed |-> 0]

\* No call of the user functions yet.
UsersIdle == lastUserOp = [op |-> "none", user |-> NoUser]

\* App before its first render.
AppIdle ==
  /\ appLoaded = FALSE
  /\ appUser = NoUser
  /\ view = "onboarding"
  /\ authStep = "email"
  /\ pendingEmail = ""
  /\ otpError = FALSE
  /\ lastSubmit = [form |-> "none", value |-> "", seq |-> 0]

\* No recognizer has been started, no performAnalysis has run.
ListenIdle == isListening = FALSE /\ recognition = "idle" /\ orphans = 0
NoCycle == [frame |-> "none", instruction |-> "", seq |-> 0]
CycleIdle == closureContext = "" /\ lastCycle = NoCycle

ExtIdle == UsersIdle /\ AppIdle /\ ListenIdle /\ CycleIdle

HistInit ==
  /\ unsafeHandled = FALSE
  /\ stopCause = "none"
  /\ pointsAtStop = 0
  /\ summaryFailed = FALSE
  /\ saveLog = <<>>
  /\ videoFailed = FALSE

NoResponse == [throws |-> FALSE, text |-> <<>>, fields |-> EmptyFields]
NotCalled == [settled |-> "not called", value |-> ConnectionErrorPoint]

NoSumRequest ==
  [points |-> <<>>,
   response |-> [throws |-> FALSE, text |-> <<>>, keyInsights |-> <<>>, overallScore |-> 0]]
SumNotCalled == [settled |-> "not called", value |-> NullSummary]

\* A canvas element is 300 x 150 until its size is set.
NoCaptureInput ==
  [build |-> "SessionRecorder", hasVideo |-> FALSE, hasCanvas |-> FALSE, hasCtx |-> FALSE,
   readyState |-> 0, videoWidth |-> 0, videoHeight |-> 0]
NotCaptured == [called |-> FALSE, frame |-> "null", width |-> 300, height |-> 150]

GemIdle ==
  /\ gemService = "services/geminiService.ts"
  /\ captureInput = NoCaptureInput
  /\ captureResult = NotCaptured
  /\ gemResponse = NoResponse
  /\ gemPromise = NotCalled
  /\ sumRequest = NoSumRequest
  /\ sumPromise = SumNotCalled

Init ==
  /\ apiKey \in BOOLEAN /\ GemIdle /\ StoreInit /\ RecInit /\ HistInit /\ TtsIdle /\ CoIdle
  /\ MentorsIdle /\ ExtIdle

\* ========================================================== SessionRecorder

OkFields(status) ==
  [detectedActivity |-> "Practising", postureScore |-> 7, focusScore |-> 7,
   lightingScore |-> 7,
   suggestion |-> IF status = UNSAFE THEN "Unsafe content" ELSE "Nice layout",
   safetyStatus |-> status]
Throwing == [throws |-> TRUE, text |-> <<>>, fields |-> EmptyFields]
Answer(status) ==
  [throws |-> FALSE, text |-> <<"fence", "{", "body", "}", "fence">>, fields |-> OkFields(status)]
\* What the remote service may answer to an analysis request of a session.
SessionResponses == {Throwing, Answer(SAFE), Answer(UNSAFE)}
SummaryAnswer ==
  [throws |-> FALSE, text |-> <<"{", "body", "}">>, keyInsights |-> <<"i1", "i2", "i3">>,
   overallScore |-> 80]
SummaryThrowing == [throws |-> TRUE, text |-> <<>>, keyInsights |-> <<>>, overallScore |-> 0]
SummaryResponses == {SummaryThrowing, SummaryAnswer}

StopTracks(ts) == [t \in TrackIds |-> IF ts[t] = "live" THEN "ended" ELSE ts[t]]

\* A check that lets every point through.
UnsafeNever(point) == FALSE

\* point.safetyStatus === SafetyStatus.UNSAFE
Unsafe(point) == point.safetyStatus = UNSAFE

\* The record of one call of performAnalysis: whether captureFrame gave a
\* frame and, if so, the user instruction passed to analyzeFrame.  seq tells
\* two successive calls apart.
Cycle(hasFrame, instruction) ==
  [frame |-> IF hasFrame THEN "yes" ELSE "no",
   instruction |-> IF hasFrame THEN instruction ELSE "",
   seq |-> 1 - lastCycle.seq]

\* performAnalysis up to its await, with the liveContext its closure holds:
\* captureFrame, then the call of analyzeFrame when there is a frame.
PerformAnalysis(instruction) ==
  \E hasFrame \in BOOLEAN :
    /\ hasFrame => inFlight < MaxInFlight
    /\ inFlight' = IF hasFrame THEN inFlight + 1 ELSE inFlight
    /\ lastCycle' = Cycle(hasFrame, instruction)

\* An analysis effect that is not re-run when liveContext changes.
AnalysisDepsFixed(old, new) == FALSE

\* The analysis effect depends on performAnalysis, which is a new function
\* whenever liveContext differs from the previous render's.
AnalysisDepsChanged(old, new) == old # new

\* The cleanup of the effect that created the recognizer: abort().  The
\* aborted recognizer still fires its end event.
AbortRecognizer(aborts, rec) ==
  /\ recognition' = IF aborts THEN "idle" ELSE rec
  /\ orphans' = IF aborts /\ rec # "idle" THEN orphans + 1 ELSE orphans
  /\ UNCHANGED isListening

\* A recorder that stop() leaves in the recording state.
StillRecording == "recording"

\* mediaRecorderRef.current.stop(): the recorder becomes inactive and fires one
\* stop event; stop() on an inactive recorder throws.
StoppedState == "inactive"

\* The render the component's handlers close over.
CurrentRender ==
  [active |-> TRUE, points |-> analysisPoints, timeLeft |-> timeLeft,
   isProcessing |-> isProcessing]

\* initCamera: getUserMedia resolves.  The stream is stored in the ref whether
\* or not the component is still mounted.
CameraGranted ==
  /\ camera = "pending"
  /\ camera' = "granted"
  /\ streamRef' = TRUE
  /\ tracks' = [t \in TrackIds |-> "live"]
  /\ UNCHANGED <<mounted, mediaRecorder, onstop, isRecording, timeLeft, analysisPoints,
                 currentSuggestion, lastAnalysis, isProcessing, error, liveContext,
                 timerClosure, inFlight, stopPhase, reportId, pendingReport, completed>>
  /\ UNCHANGED <<buildVars, ttsVars, coVars, mentorVars, extVars, storeVars, histVars>>

\* initCamera: getUserMedia rejects.
CameraDenied ==
  /\ camera = "pending"
  /\ camera' = "denied"
  /\ error' = IF mounted THEN ERR_CAMERA ELSE error
  /\ UNCHANGED <<mounted, streamRef, tracks, mediaRecorder, onstop, isRecording, timeLeft,
                 analysisPoints, currentSuggestion, lastAnalysis, isProcessing, liveContext,
                 timerClosure, inFlight, stopPhase, reportId, pendingReport, completed>>
  /\ UNCHANGED <<buildVars, ttsVars, coVars, mentorVars, extVars, storeVars, histVars>>

\* startRecording (the Start Session button, rendered while neither recording
\* nor processing), with the two effects that run because isRecording became
\* true: the countdown interval, and performAnalysis called once at once.
StartRecording ==
  /\ mounted /\ error = NoError /\ ~isRecording /\ ~isProcessing
  /\ streamRef
  /\ PerformAnalysis(liveContext)
  /\ closureContext' = liveContext
  /\ mediaRecorder' = "recording"
  /\ onstop' = NoHandler
  /\ isRecording' = TRUE
  /\ error' = NoError
  /\ timerClosure' = CurrentRender
  /\ UNCHANGED <<mounted, camera, streamRef, tracks, timeLeft, analysisPoints,
                 currentSuggestion, lastAnalysis, isProcessing, liveContext, stopPhase,
                 reportId, pendingReport, completed>>
  /\ UNCHANGED <<buildVars, ttsVars, coVars, mentorVars, userVars, appVars, listenVars,
                 storeVars, histVars>>

\* stopRecording as called from render `cl`: it reads isProcessing,
\* analysisPoints and timeLeft from that render; the refs are shared.
StopRecording(cl, cause) ==
  IF mediaRecorder = "null" \/ cl.isProcessing
  THEN UNCHANGED <<isProcessing, onstop, mediaRecorder, stopPhase, isRecording,
                   timerClosure, stopCause, pointsAtStop>>
  ELSE /\ isProcessing' = TRUE
       /\ onstop' = [set |-> TRUE, points |-> cl.points, timeLeft |-> cl.timeLeft]
       /\ stopCause' = cause
       /\ pointsAtStop' = Len(analysisPoints)
       /\ IF mediaRecorder = "recording"
          THEN /\ mediaRecorder' = StoppedState
               /\ stopPhase' = "stopQueued"
               /\ isRecording' = FALSE
               /\ timerClosure' = NoTimer
          ELSE \* MediaRecorder.stop() throws InvalidStateError when inactive
               UNCHANGED <<mediaRecorder, stopPhase, isRecording, timerClosure>>

\* Timer Logic: one callback of the 1 s interval.  Its stopRecording is the one
\* of the render in which the interval was created.
TimerTick ==
  /\ mounted /\ timerClosure.active
  /\ IF timeLeft <= 1
     THEN /\ timeLeft' = 0
          /\ StopRecording(timerClosure, "timeout")
     ELSE /\ timeLeft' = timeLeft - 1
          /\ UNCHANGED <<isProcessing, onstop, mediaRecorder, stopPhase, isRecording,
                         timerClosure, stopCause, pointsAtStop>>
  /\ UNCHANGED <<mounted, camera, streamRef, tracks, analysisPoints, currentSuggestion,
                 lastAnalysis, error, liveContext, inFlight, reportId, pendingReport,
                 completed>>
  /\ UNCHANGED <<buildVars, ttsVars, coVars, mentorVars, extVars, storeVars, unsafeHandled, summaryFailed, saveLog, videoFailed>>

\* The Stop & Analyze button, rendered while recording.
StopClick ==
  /\ mounted /\ error = NoError /\ isRecording
  /\ StopRecording(CurrentRender, "user")
  /\ UNCHANGED <<mounted, camera, streamRef, tracks, timeLeft, analysisPoints,
                 currentSuggestion, lastAnalysis, error, liveContext, inFlight, reportId,
                 pendingReport, completed>>
  /\ UNCHANGED <<buildVars, ttsVars, coVars, mentorVars, extVars, storeVars, unsafeHandled, summaryFailed, saveLog, videoFailed>>

\* The 20 s interval calls the performAnalysis its effect closed over.
AnalysisTick ==
  /\ mounted /\ isRecording
  /\ PerformAnalysis(closureContext)
  /\ UNCHANGED <<mounted, camera, streamRef, tracks, mediaRecorder, onstop, isRecording,
                 timeLeft, analysisPoints, currentSuggestion, lastAnalysis, isProcessing,
                 error, liveContext, timerClosure, stopPhase, reportId, pendingReport,
                 completed>>
  /\ UNCHANGED <<buildVars, ttsVars, coVars, mentorVars, userVars, appVars, listenVars,
                 closureContext, storeVars, histVars>>

\* handleUnsafeContent.  The refs are touched whether or not the component is
\* mounted; the state setters act only on a mounted component.
HandleUnsafeContent ==
  /\ mediaRecorder' = IF mediaRecorder = "recording" THEN StoppedState ELSE mediaRecorder
  /\ stopPhase' = IF mediaRecorder = "recording" /\ onstop.set THEN "stopQueued" ELSE stopPhase
  /\ isRecording' = IF mounted THEN FALSE ELSE isRecording
  /\ error' = IF mounted THEN ERR_SAFETY ELSE error
  /\ timerClosure' = NoTimer
  /\ tracks' = IF streamRef THEN StopTracks(tracks) ELSE tracks
  /\ unsafeHandled' = TRUE
  /\ UNCHANGED <<analysisPoints, lastAnalysis, currentSuggestion>>

\* The point is appended and shown (no check of isRecording).
ApplyPoint(point) ==
  /\ analysisPoints' = IF mounted THEN Append(analysisPoints, point) ELSE analysisPoints
  /\ lastAnalysis' = IF mounted THEN <<point>> ELSE lastAnalysis
  /\ currentSuggestion' = IF mounted THEN point.suggestion ELSE currentSuggestion
  /\ UNCHANGED <<mediaRecorder, stopPhase, isRecording, error, timerClosure, tracks,
                 unsafeHandled>>

\* performAnalysis after its await: one analyzeFrame call settles.
AnalysisResolves ==
  /\ inFlight > 0
  /\ inFlight' = inFlight - 1
  /\ \E response \in SessionResponses :
       LET p == AnalyzeFrame(apiKey, response)
       IN IF p.settled = "rejected"
          THEN \* catch: console.error only
               UNCHANGED <<analysisPoints, lastAnalysis, currentSuggestion, mediaRecorder,
                           stopPhase, isRecording, error, timerClosure, tracks,
                           unsafeHandled>>
          ELSE IF Unsafe(p.value)
               THEN HandleUnsafeContent
               ELSE /\ mounted => Len(analysisPoints) < MaxPoints
                    /\ ApplyPoint(p.value)
  /\ UNCHANGED <<mounted, camera, streamRef, onstop, timeLeft, isProcessing, liveContext,
                 reportId, pendingReport, completed>>
  /\ UNCHANGED <<buildVars, ttsVars, coVars, mentorVars, extVars, storeVars, stopCause, pointsAtStop, summaryFailed, saveLog,
                 videoFailed>>

\* The recorder's stop event reaches the onstop handler, which runs up to
\* `await saveVideoBlob(reportId, blob)`.
StopEvent ==
  /\ stopPhase = "stopQueued"
  /\ stopPhase' = "savingVideo"
  /\ nextId' = nextId + 1
  /\ reportId' = nextId + 1
  /\ UNCHANGED <<mounted, camera, streamRef, tracks, mediaRecorder, onstop, isRecording,
                 timeLeft, analysisPoints, currentSuggestion, lastAnalysis, isProcessing,
                 error, liveContext, timerClosure, inFlight, pendingReport, completed>>
  /\ UNCHANGED <<buildVars, ttsVars, coVars, mentorVars, extVars, usersDB, currentEmail, reportsStore, videoStore,
                 deleteRequests, histVars>>

\* A catch block that runs the stop handler again.
HandlerRetries ==
  /\ error' = IF mounted THEN ERR_FAILED ELSE error
  /\ isProcessing' = IF mounted THEN FALSE ELSE isProcessing
  /\ stopPhase' = "stopQueued"

\* The catch block of the onstop handler.
HandlerFails ==
  /\ error' = IF mounted THEN ERR_FAILED ELSE error
  /\ isProcessing' = IF mounted THEN FALSE ELSE isProcessing
  /\ stopPhase' = "failed"

\* The handler without the inner try/catch: a rejection of saveVideoBlob
\* reaches the catch block of the handler.
SaveVideoUnguarded(ok) ==
  IF ok THEN stopPhase' = "summarizing" /\ UNCHANGED <<error, isProcessing>>
  ELSE HandlerFails

\* The inner try/catch around `await saveVideoBlob`: a rejection is logged
\* ("Could not save video blob") and the handler continues either way.
SaveVideoSettled(ok) ==
  /\ stopPhase' = "summarizing"
  /\ UNCHANGED <<error, isProcessing>>

\* saveVideoBlob settles (a rejection is caught and logged); the handler goes
\* on to `await generateFinalSummary(analysisPoints, ...)`.
SaveVideoDone ==
  /\ stopPhase = "savingVideo"
  /\ \E ok \in BOOLEAN :
       /\ videoStore' = IF ok THEN videoStore \cup {reportId} ELSE videoStore
       /\ videoFailed' = ~ok
       /\ SaveVideoSettled(ok)
  /\ UNCHANGED <<mounted, camera, streamRef, tracks, mediaRecorder, onstop, isRecording,
                 timeLeft, analysisPoints, currentSuggestion, lastAnalysis, liveContext,
                 timerClosure, inFlight, reportId, pendingReport, completed>>
  /\ UNCHANGED <<buildVars, ttsVars, coVars, mentorVars, extVars, usersDB, currentEmail, reportsStore, deleteRequests, nextId,
                 sessionHist, saveLog>>

\* A handler that reads the history and the countdown when it assembles the
\* report instead of when stopRecording was called.
AssembleReportLate(summary) ==
  [id |-> reportId,
   userId |-> IdOf(RecUserEmail),
   durationSeconds |-> SessionSeconds - timeLeft,
   timeline |-> analysisPoints,
   videoBlobKey |-> reportId,
   overallScore |-> summary.overallScore]

\* The report the handler assembles from its closure.
AssembleReport(summary) ==
  [id |-> reportId,
   userId |-> IdOf(RecUserEmail),
   durationSeconds |-> SessionSeconds - onstop.timeLeft,
   timeline |-> onstop.points,
   videoBlobKey |-> reportId,
   overallScore |-> summary.overallScore]

\* generateFinalSummary settles; on success the report is assembled and the
\* handler goes on to `await saveReportMetadata(report)`.
SummaryDone ==
  /\ stopPhase = "summarizing"
  /\ \E response \in SummaryResponses :
       LET p == GenerateFinalSummary(apiKey, onstop.points, response)
       IN IF p.settled = "rejected" \/ p.value.kind = "null"
          THEN /\ HandlerFails
               /\ summaryFailed' = (p.settled = "rejected")
               /\ UNCHANGED pendingReport
          ELSE /\ pendingReport' = AssembleReport(p.value)
               /\ stopPhase' = "savingMeta"
               /\ UNCHANGED <<error, isProcessing, summaryFailed>>
  /\ UNCHANGED <<mounted, camera, streamRef, tracks, mediaRecorder, onstop, isRecording,
                 timeLeft, analysisPoints, currentSuggestion, lastAnalysis, liveContext,
                 timerClosure, inFlight, reportId, completed>>
  /\ UNCHANGED <<buildVars, ttsVars, coVars, mentorVars, extVars, storeVars, unsafeHandled, stopCause, pointsAtStop, saveLog,
                 videoFailed>>

\* saveReportMetadata settles.  On success the handler calls onComplete, and
\* App's handleSessionComplete switches the view to the report, which unmounts
\* the recorder (its cleanup stops the tracks).  A rejection (localStorage
\* refusing the write) goes to the catch block.
MetaDone ==
  /\ stopPhase = "savingMeta"
  /\ \E ok \in BOOLEAN :
       IF ok
       THEN LET w == SaveReportMetadata(reportsStore, usersDB, currentEmail, pendingReport)
            IN /\ reportsStore' = w.store
               /\ deleteRequests' = deleteRequests \cup w.deleted
               /\ videoStore' = videoStore \ w.deleted
               /\ completed' = Append(completed, pendingReport)
               /\ saveLog' = <<pendingReport>> \o saveLog
               /\ stopPhase' = "done"
               /\ mounted' = FALSE
               /\ tracks' = IF mounted /\ streamRef THEN StopTracks(tracks) ELSE tracks
               /\ timerClosure' = NoTimer
               /\ AbortRecognizer(mounted, recognition)
               /\ UNCHANGED <<error, isProcessing>>
       ELSE /\ HandlerFails
            /\ UNCHANGED <<reportsStore, deleteRequests, videoStore, completed, mounted,
                           tracks, timerClosure, saveLog, listenVars>>
  /\ UNCHANGED <<camera, streamRef, mediaRecorder, onstop, isRecording, timeLeft,
                 analysisPoints, currentSuggestion, lastAnalysis, liveContext, inFlight,
                 reportId, pendingReport>>
  /\ UNCHANGED <<buildVars, ttsVars, coVars, mentorVars, userVars, appVars, cycleVars, usersDB,
                 currentEmail, nextId, sessionHist, videoFailed>>

\* onCancel: the Cancel button (neither recording nor processing) or the error
\* view's Return to Dashboard.  App leaves the recording view; the effect
\* cleanups run.
Unmount ==
  /\ mounted
  /\ error # NoError \/ (~isRecording /\ ~isProcessing)
  /\ mounted' = FALSE
  /\ tracks' = IF streamRef THEN StopTracks(tracks) ELSE tracks
  /\ timerClosure' = NoTimer
  /\ AbortRecognizer(TRUE, recognition)
  /\ UNCHANGED <<camera, streamRef, mediaRecorder, onstop, isRecording, timeLeft,
                 analysisPoints, currentSuggestion, lastAnalysis, isProcessing, error,
                 liveContext, inFlight, stopPhase, reportId, pendingReport, completed>>
  /\ UNCHANGED <<buildVars, ttsVars, coVars, mentorVars, userVars, appVars, cycleVars,
                 storeVars, histVars>>

Transcripts == {"slower please"}

\* setLiveContext, from recognition.onresult or the Clear button.  A changed
\* liveContext gives performAnalysis a new identity, so the analysis effect
\* re-runs while recording: performAnalysis is called at once and the 20 s
\* interval is replaced by one that calls the new performAnalysis.
SetLiveContext(text) ==
  /\ liveContext' = IF mounted THEN text ELSE liveContext
  /\ IF mounted /\ isRecording /\ AnalysisDepsChanged(liveContext, text)
     THEN PerformAnalysis(text) /\ closureContext' = text
     ELSE UNCHANGED <<inFlight, cycleVars>>
  /\ UNCHANGED <<mounted, camera, streamRef, tracks, mediaRecorder, onstop, isRecording,
                 timeLeft, analysisPoints, currentSuggestion, lastAnalysis, isProcessing,
                 error, timerClosure, stopPhase, reportId, pendingReport, completed>>
  /\ UNCHANGED <<buildVars, ttsVars, coVars, mentorVars, userVars, appVars, storeVars,
                 histVars>>

\* recognition.onresult: the recognizer (continuous = false) has one result
\* and ends after it.
RecognitionResult ==
  /\ recognition = "listening"
  /\ recognition' = "result"
  /\ UNCHANGED <<isListening, orphans>>
  /\ \E t \in Transcripts : SetLiveContext(t)

\* The Clear button beside the transcript, rendered while recording.
ClearContext ==
  /\ mounted /\ error = NoError /\ isRecording /\ liveContext # ""
  /\ SetLiveContext("")
  /\ UNCHANGED listenVars

\* ------------------------------------------------------ speech recognition

\* Cap on the aborted recognizers whose end event is pending together.
MaxOrphans == 2

RecognitionErrors == {"no-speech", "not-allowed", "network"}

\* An onerror that clears the flag for the two expected errors only.
ListeningAfterExpectedError(kind, listening) ==
  IF kind \in {"no-speech", "not-allowed"} THEN FALSE ELSE listening

\* recognition.onerror: every branch ends in setIsListening(false).
ListeningAfterError(kind, listening) == FALSE

ListenFrame ==
  UNCHANGED <<buildVars, storeVars, recVars, histVars, ttsVars, coVars, mentorVars, userVars,
              appVars, cycleVars>>

\* toggleListening (the microphone button of the normal view): stop() while
\* the flag is set, start() otherwise.  start() on a recognizer that has
\* already been started throws and changes nothing.
ToggleListening ==
  /\ mounted /\ error = NoError
  /\ IF isListening
     THEN recognition' = IF recognition \in {"starting", "listening"} THEN "stopping"
                         ELSE recognition
     ELSE /\ recognition = "idle" => orphans < MaxOrphans
          /\ recognition' = IF recognition = "idle" THEN "starting" ELSE recognition
  /\ UNCHANGED <<isListening, orphans>>
  /\ ListenFrame

\* recognition.onstart
RecognitionStart ==
  /\ recognition = "starting"
  /\ recognition' = "listening"
  /\ isListening' = IF mounted THEN TRUE ELSE isListening
  /\ UNCHANGED orphans
  /\ ListenFrame

\* recognition.onerror; the end event follows.
RecognitionError ==
  /\ recognition \in {"starting", "listening"}
  /\ \E kind \in RecognitionErrors :
       /\ recognition' = kind
       /\ isListening' = IF mounted THEN ListeningAfterError(kind, isListening)
                         ELSE isListening
  /\ UNCHANGED orphans
  /\ ListenFrame

\* recognition.onend, after stop(), a result or an error.
RecognitionEnd ==
  /\ recognition \in {"stopping", "result"} \cup RecognitionErrors
  /\ recognition' = "idle"
  /\ isListening' = IF mounted THEN FALSE ELSE isListening
  /\ UNCHANGED orphans
  /\ ListenFrame

\* onend of a recognizer that an effect cleanup aborted.
OrphanEnd ==
  /\ orphans > 0
  /\ orphans' = orphans - 1
  /\ isListening' = IF mounted THEN FALSE ELSE isListening
  /\ UNCHANGED recognition
  /\ ListenFrame

RecNext ==
  \/ CameraGranted
  \/ CameraDenied
  \/ StartRecording
  \/ TimerTick
  \/ StopClick
  \/ AnalysisTick
  \/ AnalysisResolves
  \/ StopEvent
  \/ SaveVideoDone
  \/ SummaryDone
  \/ MetaDone
  \/ Unmount
  \/ RecognitionResult
  \/ ClearContext
  \/ ToggleListening
  \/ RecognitionStart
  \/ RecognitionError
  \/ RecognitionEnd
  \/ OrphanEnd

\* One continuous-recording session, from mount to unmount.
SpecRec == Init /\ [][RecNext]_vars

\* ============================================= analyzeFrame as a function

\* Bound on the length of a response text, in tokens.
MaxTextLen == 3

Texts == UNION {[1..n -> Tokens] : n \in 0..MaxTextLen}
FieldValues ==
  {[EmptyFields EXCEPT !.safetyStatus = st, !.postureScore = sc, !.focusScore = sc,
                       !.lightingScore = sc, !.suggestion = sg] :
     st \in {"", SAFE, UNSAFE, UNKNOWN, "BLOCKED"}, sc \in {0, 7},
     sg \in {"", "Nice layout"}}
Responses == [throws : BOOLEAN, text : Texts, fields : FieldValues]

GemInit ==
  /\ apiKey \in BOOLEAN
  /\ gemService \in GemServices
  /\ gemResponse \in Responses
  /\ gemPromise = NotCalled
  /\ sumRequest = NoSumRequest
  /\ sumPromise = SumNotCalled
  /\ captureInput = NoCaptureInput
  /\ captureResult = NotCaptured
  /\ StoreInit /\ RecInit /\ HistInit /\ TtsIdle /\ CoIdle /\ MentorsIdle
  /\ ExtIdle

\* One call of analyzeFrame, run to the settlement of its promise.
CallAnalyzeFrame ==
  /\ gemPromise = NotCalled
  /\ gemPromise' = IF gemService = "Downloads/mentorme-ai"
                   THEN AnalyzeFrameDownloads(apiKey, gemResponse)
                   ELSE AnalyzeFrame(apiKey, gemResponse)
  /\ UNCHANGED <<apiKey, gemService, gemResponse, sumRequest, sumPromise, captureInput, captureResult,
                 storeVars, recVars, histVars,
                 ttsVars, coVars, mentorVars, extVars>>

GemNext == CallAnalyzeFrame

\* analyzeFrame over every build and every remote behaviour within MaxTextLen.
SpecGemini == GemInit /\ [][GemNext]_vars

\* ==================================== generateFinalSummary as a function

\* The point histories a summary is requested for: none, or one SAFE point.
SummaryPoints == {<<>>, <<PointOfResult(OkFields(SAFE))>>}
\* generateContent throws, or answers `text`; keyInsights and overallScore are
\* what a JSON object in that text carries.
SumResponses ==
  [throws : BOOLEAN, text : Texts, keyInsights : {<<>>, <<"i1">>, <<"i1", "i2", "i3">>},
   overallScore : {0, 80}]

SumInit ==
  /\ apiKey \in BOOLEAN
  /\ gemService = "services/geminiService.ts"
  /\ gemResponse = NoResponse
  /\ gemPromise = NotCalled
  /\ sumRequest \in [points : SummaryPoints, response : SumResponses]
  /\ sumPromise = SumNotCalled
  /\ captureInput = NoCaptureInput
  /\ captureResult = NotCaptured
  /\ StoreInit /\ RecInit /\ HistInit /\ TtsIdle /\ CoIdle /\ MentorsIdle
  /\ ExtIdle

\* One call of generateFinalSummary, run to the settlement of its promise.
CallGenerateFinalSummary ==
  /\ sumPromise = SumNotCalled
  /\ sumPromise' = GenerateFinalSummary(apiKey, sumRequest.points, sumRequest.response)
  /\ UNCHANGED <<apiKey, gemService, gemResponse, gemPromise, sumRequest, captureInput,
                 captureResult,
                 storeVars, recVars, histVars,
                 ttsVars, coVars, mentorVars, extVars>>

\* generateFinalSummary over every build, both kinds of history and every
\* remote behaviour within MaxTextLen.
SpecSummary == SumInit /\ [][CallGenerateFinalSummary]_vars

\* ============================================= captureFrame as a function

MAX_WIDTH_RECORDER == 1024
MAX_WIDTH_SCREEN == 1920

RECURSIVE Pow2Mod(_, _)
\* 2^s modulo w.
Pow2Mod(s, w) == IF s = 0 THEN 1 % w ELSE (2 * Pow2Mod(s - 1, w)) % w

RECURSIVE BitLength(_)
BitLength(n) == IF n = 0 THEN 0 ELSE 1 + BitLength(n \div 2)

\* Math.min(1, max / w) for w > max, then x * scale, both in IEEE-754 double
\* precision, and the integer part of the product (the canvas size setter and
\* Math.floor both drop the fraction).  With k the least number such that
\* max * 2^k >= w, the quotient max / w has the 53-bit significand
\* round(max * 2^(52+k) / w) and r is the remainder of that division.  The
\* product differs from floor(x * max / w) only when x * max / w is an integer
\* n, the quotient was rounded down and the product x * max / w - x*r/(w*2^(52+k))
\* is not rounded back up to n, that is when x*r/(w*2^(52+k)) exceeds half the
\* spacing of the doubles below n.
ScaleTrunc(x, w, max) ==
  LET k == CHOOSE j \in 0..31 : max * 2^j >= w /\ \A i \in 0..(j - 1) : max * 2^i < w
      r == (max * Pow2Mod(52 + k, w)) % w
      n == (x * max) \div w
      len == BitLength(n)
      e == IF n = 2^(len - 1) THEN len + k - 3 ELSE len + k - 2
  IN IF (x * max) % w # 0 \/ n = 0 THEN n
     ELSE IF r = 0 \/ 2 * r >= w THEN n
     ELSE IF x * r <= w * 2^e THEN n ELSE n - 1

\* canvas.toDataURL(...).split(',')[1]: a canvas without pixels serializes to
\* "data:,", whose part after the comma is the empty string.
DataUrlPayload(width, height) == IF width = 0 \/ height = 0 THEN "" ELSE "data"

\* captureFrame of the component named by input.build, with `minReady` the
\* readyState the co-creation session asks for.  The recorder does not look
\* at readyState or at the natural size before it sizes the canvas.
CaptureWith(input, minReady) ==
  LET recorder == input.build = "SessionRecorder"
      max == IF recorder THEN MAX_WIDTH_RECORDER ELSE MAX_WIDTH_SCREEN
      w == input.videoWidth
      h == input.videoHeight
      untouched == [called |-> TRUE, frame |-> "null", width |-> 300, height |-> 150]
  IN IF ~input.hasVideo \/ ~input.hasCanvas THEN untouched
     ELSE IF ~recorder /\ (input.readyState < minReady \/ w = 0 \/ h = 0) THEN untouched
     ELSE IF ~input.hasCtx THEN [called |-> TRUE, frame |-> "null", width |-> w, height |-> h]
     ELSE IF w > max
          THEN LET width == ScaleTrunc(w, w, max)
                   height == ScaleTrunc(h, w, max)
               IN [called |-> TRUE, frame |-> DataUrlPayload(width, height),
                   width |-> width, height |-> height]
          ELSE [called |-> TRUE, frame |-> DataUrlPayload(w, h), width |-> w, height |-> h]

\* The co-creation session waiting for readyState 3 instead of 2.
CaptureFrameLateReady(input) == CaptureWith(input, 3)

\* captureFrame.
CaptureFrame(input) == CaptureWith(input, 2)

\* The natural sizes drawn: none yet, camera and screen sizes on both sides of
\* the two maximum widths, and a strip one pixel high.
CaptureInit ==
  /\ apiKey = TRUE
  /\ gemService = "services/geminiService.ts"
  /\ gemResponse = NoResponse /\ gemPromise = NotCalled
  /\ sumRequest = NoSumRequest /\ sumPromise = SumNotCalled
  /\ captureInput \in [build : {"SessionRecorder", "CoCreatorSession"}, hasVideo : BOOLEAN,
                        hasCanvas : BOOLEAN, hasCtx : BOOLEAN, readyState : 0..4,
                        videoWidth : {0, 640, 1024, 1122, 1280, 1920, 2148, 2560},
                        videoHeight : {0, 1, 480, 1080}]
  /\ captureResult = NotCaptured
  /\ StoreInit /\ RecInit /\ HistInit /\ TtsIdle /\ CoIdle /\ MentorsIdle
  /\ ExtIdle

\* One call of captureFrame.
CallCaptureFrame ==
  /\ captureResult = NotCaptured
  /\ captureResult' = CaptureFrame(captureInput)
  /\ UNCHANGED <<apiKey, gemService, gemResponse, gemPromise, sumRequest, sumPromise,
                 captureInput, storeVars, recVars, histVars, ttsVars, coVars, mentorVars, extVars>>

\* captureFrame of both session components over the natural sizes above.
SpecCapture == CaptureInit /\ [][CallCaptureFrame]_vars

\* ============================================ text to speech (TTS Logic)

\* Cap on the speechSynthesis.speak calls of one session.
MaxUtterances == 3

\* The three components that carry the effect.
TtsBuilds == {"SessionRecorder", "CoCreatorSession", "Downloads/CoCreatorSession"}
MSG_READY == "Ready to connect..."
MSG_STOPPED == "Session stopped."
\* setCurrentSuggestion in startScreenShare.
ConnectedText(build) ==
  IF build = "CoCreatorSession" THEN "Connected. I'm watching your screen."
  ELSE "Connected to mentor. I'm watching your screen now."

\* The live flag the effect reads: isRecording in the recorder, isLive in the
\* co-creation session.
TtsLive == IF ttsBuild = "SessionRecorder" THEN isRecording ELSE isLive

\* The body of the effect: what window.speechSynthesis holds after it ran.
\* SessionRecorder and CoCreatorSession cancel before the early return, the
\* CoCreatorSession under Downloads/ returns before it cancels.
TtsEffect(build, queue, enabled, text, live) ==
  IF ~enabled \/ text = "" \/ ~live
  THEN IF build = "Downloads/CoCreatorSession" THEN queue ELSE <<>>
  ELSE Append(<<>>, text)

\* The effect re-runs after a render in which one of its dependencies changed.
RunTts(enabled, text, live) ==
  LET speaks == enabled /\ text # "" /\ live   \* speechSynthesis.speak is reached
  IN /\ speaks => spoken < MaxUtterances
     /\ speechQueue' = TtsEffect(ttsBuild, speechQueue, enabled, text, live)
     /\ spoken' = IF speaks THEN spoken + 1 ELSE spoken

TtsInit ==
  /\ apiKey = TRUE /\ GemIdle /\ StoreInit /\ RecIdle /\ HistInit /\ CoIdle /\ MentorsIdle
  /\ ExtIdle
  /\ ttsBuild \in TtsBuilds
  /\ currentSuggestion = IF ttsBuild = "SessionRecorder" THEN MSG_INIT ELSE MSG_READY
  /\ isVoiceEnabled = (ttsBuild # "SessionRecorder")
  /\ availableVoices \in BOOLEAN
  /\ speechQueue = <<>>
  /\ spoken = 0
  /\ mutedText = ""

TtsFrame ==
  UNCHANGED <<buildVars, storeVars, histVars, mentorVars, extVars, ttsBuild, camera, streamRef, tracks,
              mediaRecorder, onstop, timeLeft, analysisPoints, lastAnalysis, isProcessing,
              error, liveContext, timerClosure, inFlight, stopPhase, reportId,
              pendingReport, completed>>

\* The voice button: setIsVoiceEnabled(!isVoiceEnabled).
ToggleVoice ==
  /\ mounted
  /\ isVoiceEnabled' = ~isVoiceEnabled
  /\ mutedText' = IF isVoiceEnabled THEN currentSuggestion ELSE mutedText
  /\ RunTts(~isVoiceEnabled, currentSuggestion, TtsLive)
  /\ UNCHANGED <<mounted, currentSuggestion, isRecording, coVars, availableVoices>>
  /\ TtsFrame

\* The session goes live or stops: setIsRecording in startRecording and
\* stopRecording; setIsLive with setCurrentSuggestion in startScreenShare and
\* handleStop.
SetLive ==
  /\ mounted
  /\ LET live == ~TtsLive
          text == IF ttsBuild = "SessionRecorder" THEN currentSuggestion
                  ELSE IF live THEN ConnectedText(ttsBuild) ELSE MSG_STOPPED
     IN /\ isRecording' = IF ttsBuild = "SessionRecorder" THEN live ELSE isRecording
        /\ isLive' = IF ttsBuild = "SessionRecorder" THEN isLive ELSE live
        /\ currentSuggestion' = text
        /\ RunTts(isVoiceEnabled, text, live)
  /\ UNCHANGED <<mounted, isVoiceEnabled, availableVoices, mutedText, isAnalyzing,
                 sharePending, shareStreams, shareRef, videoSrc, videoReady, warmups,
                 interval, lastRejected>>
  /\ TtsFrame

\* performAnalysis: setCurrentSuggestion(point.suggestion) with a new text
\* (it has no check of the live flag).
NewSuggestion ==
  /\ mounted
  /\ \E text \in {OkFields(SAFE).suggestion, ConnectionErrorPoint.suggestion} :
       /\ text # currentSuggestion
       /\ currentSuggestion' = text
       /\ RunTts(isVoiceEnabled, text, TtsLive)
  /\ UNCHANGED <<mounted, isVoiceEnabled, isRecording, coVars, availableVoices, mutedText>>
  /\ TtsFrame

\* onvoiceschanged: loadVoices sets availableVoices, a dependency of the effect.
VoicesChanged ==
  /\ mounted /\ ~availableVoices
  /\ availableVoices' = TRUE
  /\ RunTts(isVoiceEnabled, currentSuggestion, TtsLive)
  /\ UNCHANGED <<mounted, isVoiceEnabled, currentSuggestion, isRecording, coVars, mutedText>>
  /\ TtsFrame

\* The utterance at the head of the queue has been spoken to its end.
UtteranceEnds ==
  /\ speechQueue # <<>>
  /\ speechQueue' = Tail(speechQueue)
  /\ UNCHANGED <<mounted, isVoiceEnabled, currentSuggestion, isRecording, coVars,
                 availableVoices, spoken, mutedText>>
  /\ TtsFrame

\* The component unmounts.  SessionRecorder's cleanup calls
\* speechSynthesis.cancel(); the co-creation sessions have no such cleanup.
TtsUnmount ==
  /\ mounted
  /\ mounted' = FALSE
  /\ speechQueue' = IF ttsBuild = "SessionRecorder" THEN <<>> ELSE speechQueue
  /\ UNCHANGED <<isVoiceEnabled, currentSuggestion, isRecording, coVars, availableVoices,
                 spoken, mutedText>>
  /\ TtsFrame

TtsNext ==
  \/ ToggleVoice
  \/ SetLive
  \/ NewSuggestion
  \/ VoicesChanged
  \/ UtteranceEnds
  \/ TtsUnmount

\* The TTS Logic effect of each of the three components under every order of
\* changes of its dependencies.
SpecTTS == TtsInit /\ [][TtsNext]_vars

\* ========================================================= CoCreatorSession

\* ANALYSIS_INTERVAL (10000 ms in CoCreatorSession.tsx:14) in clock ticks,
\* scaled down.
IntervalTicks == 2
\* Caps on the getDisplayMedia calls pending together, on the streams one
\* session acquires and on the warm-up timers pending together.
MaxShares == 2
MaxStreams == 2
MaxWarmups == 1

ERR_CO_SAFETY == "SAFETY ALERT: The AI detected unsafe content. Session terminated."

\* Why getDisplayMedia rejects: the user dismissed the picker or denied
\* (NotAllowedError), the document's permissions policy blocks display-capture
\* (NotAllowedError as well), anything else (NotFoundError, AbortError, ...).
RejectReasons == {"denied", "policy", "other"}

\* The catch block of startScreenShare.
ShareErrorMessage(reason) ==
  IF reason \in {"denied", "policy"} THEN "Permission cancelled."
  ELSE "Could not start screen share."

\* The <video> is part of the render only while live and without error.
VideoShown(m, live, err) == m /\ live /\ err = NoError

\* The re-render after a handler set isLive, error and liveContext to the given
\* values.  The analysis effect (deps isLive and performAnalysis, which changes
\* with liveContext) clears its interval and, while live, sets a new one; a
\* <video> that stays in the render keeps the given srcObject, one that is
\* (re)mounted has none.
CoRender(live, err, ctx, src, ready, rec) ==
  /\ interval' = IF ~mounted THEN interval
                 ELSE IF ~live THEN NoInterval
                 ELSE IF ~isLive \/ ctx # liveContext THEN [active |-> TRUE, age |-> 0]
                 ELSE interval
  /\ IF VideoShown(mounted, isLive, error) /\ VideoShown(mounted, live, err)
     THEN videoSrc' = src /\ videoReady' = ready
     ELSE videoSrc' = 0 /\ videoReady' = FALSE
  /\ AbortRecognizer(mounted /\ (live # isLive \/ ctx # liveContext), rec)

\* A performAnalysis that sets the analysing flag before it looks for a frame.
AnalyzingBeforeCapture(frame, analyzing) == TRUE

\* setIsAnalyzing(true) comes after `if (!frame) return`.
AnalyzingAfterCapture(frame, analyzing) == IF frame THEN TRUE ELSE analyzing

\* performAnalysis up to its await: captureFrame gives a frame only when the
\* mounted video has a source with loaded metadata.
CoPerformAnalysis(instruction) ==
  LET frame == mounted /\ videoSrc # 0 /\ videoReady
  IN /\ frame => inFlight < MaxInFlight
     /\ inFlight' = IF frame THEN inFlight + 1 ELSE inFlight
     /\ isAnalyzing' = IF mounted THEN AnalyzingAfterCapture(frame, isAnalyzing)
                       ELSE isAnalyzing
     /\ lastCycle' = Cycle(frame, instruction)

\* handleStop, after the stream states have become `streams`.
HandleStop(streams) ==
  /\ isLive' = IF mounted THEN FALSE ELSE isLive
  /\ shareStreams' = IF shareRef # 0 THEN [streams EXCEPT ![shareRef] = "ended"] ELSE streams
  /\ shareRef' = 0
  /\ currentSuggestion' = IF mounted THEN MSG_STOPPED ELSE currentSuggestion

CoFrame ==
  UNCHANGED <<buildVars, storeVars, histVars, ttsVars, mentorVars, userVars, appVars,
              closureContext, camera, streamRef, tracks,
              mediaRecorder, onstop, isRecording, timeLeft, analysisPoints, isProcessing,
              timerClosure, stopPhase, reportId, pendingReport, completed>>

CoInit ==
  /\ apiKey \in BOOLEAN /\ GemIdle /\ StoreInit /\ RecIdle /\ HistInit /\ TtsCoIdle /\ CoIdle
  /\ MentorsIdle /\ ExtIdle
  /\ currentSuggestion = MSG_READY

\* startScreenShare up to `await getDisplayMedia` (the three share buttons,
\* rendered while not live).
StartScreenShare ==
  /\ mounted /\ ~isLive /\ error = NoError
  /\ sharePending < MaxShares /\ Len(shareStreams) + sharePending < MaxStreams
  /\ sharePending' = sharePending + 1
  /\ UNCHANGED <<mounted, currentSuggestion, lastAnalysis, error, liveContext, inFlight,
                 isLive, isAnalyzing, shareStreams, shareRef, videoSrc, videoReady, warmups,
                 interval, lastRejected>>
  /\ UNCHANGED <<listenVars, lastCycle>>
  /\ CoFrame

\* startScreenShare after getDisplayMedia resolved.  The stream is attached
\* only if videoRef.current is set at that moment.
ShareGranted ==
  /\ sharePending > 0
  /\ sharePending' = sharePending - 1
  /\ shareStreams' = Append(shareStreams, "live")
  /\ shareRef' = Len(shareStreams) + 1
  /\ isLive' = IF mounted THEN TRUE ELSE isLive
  /\ currentSuggestion' = IF mounted THEN ConnectedText("CoCreatorSession") ELSE currentSuggestion
  /\ LET attached == VideoShown(mounted, isLive, error)
     IN CoRender(mounted \/ isLive, error, liveContext,
                 IF attached THEN Len(shareStreams) + 1 ELSE videoSrc,
                 IF attached THEN FALSE ELSE videoReady, recognition)
  /\ UNCHANGED <<mounted, lastAnalysis, error, liveContext, inFlight, isAnalyzing, warmups,
                 lastRejected>>
  /\ UNCHANGED lastCycle
  /\ CoFrame

\* startScreenShare after getDisplayMedia rejected.
ShareRejected ==
  /\ sharePending > 0
  /\ sharePending' = sharePending - 1
  /\ \E reason \in RejectReasons :
       /\ lastRejected' = reason
       /\ error' = IF mounted THEN ShareErrorMessage(reason) ELSE error
       /\ CoRender(isLive, IF mounted THEN ShareErrorMessage(reason) ELSE error, liveContext,
                   videoSrc, videoReady, recognition)
  /\ UNCHANGED <<mounted, currentSuggestion, lastAnalysis, liveContext, inFlight, isLive,
                 isAnalyzing, shareStreams, shareRef, warmups>>
  /\ UNCHANGED lastCycle
  /\ CoFrame

\* video.onloadedmetadata: play(), and the warm-up timer is set.
MetadataLoaded ==
  /\ videoSrc # 0 /\ ~videoReady /\ shareStreams[videoSrc] = "live"
  /\ warmups < MaxWarmups
  /\ videoReady' = TRUE
  /\ warmups' = warmups + 1
  /\ UNCHANGED <<mounted, currentSuggestion, lastAnalysis, error, liveContext, inFlight,
                 isLive, isAnalyzing, sharePending, shareStreams, shareRef, videoSrc,
                 interval, lastRejected>>
  /\ UNCHANGED <<listenVars, lastCycle>>
  /\ CoFrame

\* The warm-up timer fires (nothing ever clears it).  Its performAnalysis is
\* the one of the render in which the share button was clicked, so the
\* liveContext it sends is any value the transcript had by then.
WarmupFires ==
  /\ warmups > 0
  /\ warmups' = warmups - 1
  /\ \E ctx \in {""} \cup Transcripts : CoPerformAnalysis(ctx)
  /\ UNCHANGED <<mounted, currentSuggestion, lastAnalysis, error, liveContext, isLive,
                 sharePending, shareStreams, shareRef, videoSrc, videoReady, interval,
                 lastRejected>>
  /\ UNCHANGED listenVars
  /\ CoFrame

\* One tick of the clock while the interval is set; at the end of the period
\* its callback calls performAnalysis.
CoClockTick ==
  /\ interval.active
  /\ IF interval.age + 1 = IntervalTicks
     THEN /\ interval' = [active |-> TRUE, age |-> 0]
          /\ CoPerformAnalysis(liveContext)
     ELSE /\ interval' = [active |-> TRUE, age |-> interval.age + 1]
          /\ UNCHANGED <<inFlight, isAnalyzing, lastCycle>>
  /\ UNCHANGED <<mounted, currentSuggestion, lastAnalysis, error, liveContext, isLive,
                 sharePending, shareStreams, shareRef, videoSrc, videoReady, warmups,
                 lastRejected>>
  /\ UNCHANGED listenVars
  /\ CoFrame

\* performAnalysis after its await (no check of isLive).
CoAnalysisResolves ==
  /\ inFlight > 0
  /\ inFlight' = inFlight - 1
  /\ isAnalyzing' = IF mounted THEN FALSE ELSE isAnalyzing
  /\ \E response \in SessionResponses :
       LET p == AnalyzeFrame(apiKey, response)
       IN IF p.settled = "rejected"
          THEN UNCHANGED <<currentSuggestion, lastAnalysis, error, isLive, shareStreams,
                           shareRef, videoSrc, videoReady, interval, listenVars>>
          ELSE IF Unsafe(p.value)
               THEN /\ HandleStop(shareStreams)
                    /\ error' = IF mounted THEN ERR_CO_SAFETY ELSE error
                    /\ CoRender(FALSE, ERR_CO_SAFETY, liveContext, videoSrc, videoReady,
                                recognition)
                    /\ UNCHANGED lastAnalysis
               ELSE /\ lastAnalysis' = IF mounted THEN <<p.value>> ELSE lastAnalysis
                    /\ currentSuggestion' = IF mounted THEN p.value.suggestion
                                            ELSE currentSuggestion
                    /\ UNCHANGED <<error, isLive, shareStreams, shareRef, videoSrc,
                                   videoReady, interval, listenVars>>
  /\ UNCHANGED <<mounted, liveContext, sharePending, warmups, lastRejected>>
  /\ UNCHANGED lastCycle
  /\ CoFrame

\* recognition.onresult: setLiveContext(transcript) and, while live,
\* performAnalysis(transcript).
CoRecognitionResult ==
  /\ recognition = "listening"
  /\ \E transcript \in Transcripts :
       /\ liveContext' = IF mounted THEN transcript ELSE liveContext
       /\ CoRender(isLive, error, transcript, videoSrc, videoReady, "result")
       /\ IF isLive THEN CoPerformAnalysis(transcript)
          ELSE UNCHANGED <<inFlight, isAnalyzing, lastCycle>>
  /\ UNCHANGED <<mounted, currentSuggestion, lastAnalysis, error, isLive, sharePending,
                 shareStreams, shareRef, warmups, lastRejected>>
  /\ CoFrame

\* The Clear link beside the transcript.
CoClearContext ==
  /\ mounted /\ error = NoError /\ liveContext # ""
  /\ liveContext' = ""
  /\ CoRender(isLive, error, "", videoSrc, videoReady, recognition)
  /\ UNCHANGED <<mounted, currentSuggestion, lastAnalysis, error, inFlight, isLive,
                 isAnalyzing, sharePending, shareStreams, shareRef, warmups, lastRejected>>
  /\ UNCHANGED lastCycle
  /\ CoFrame

\* The Stop Session button, rendered while live.
CoStop ==
  /\ mounted /\ isLive /\ error = NoError
  /\ HandleStop(shareStreams)
  /\ CoRender(FALSE, error, liveContext, videoSrc, videoReady, recognition)
  /\ UNCHANGED <<mounted, lastAnalysis, error, liveContext, inFlight, isAnalyzing,
                 sharePending, warmups, lastRejected>>
  /\ UNCHANGED lastCycle
  /\ CoFrame

\* The user ends the share in the browser's own bar: the track ends and its
\* onended handler calls handleStop.
TrackEnded ==
  /\ \E i \in 1..Len(shareStreams) :
       /\ shareStreams[i] = "live"
       /\ HandleStop([shareStreams EXCEPT ![i] = "ended"])
  /\ CoRender(FALSE, error, liveContext, videoSrc, videoReady, recognition)
  /\ UNCHANGED <<mounted, lastAnalysis, error, liveContext, inFlight, isAnalyzing,
                 sharePending, warmups, lastRejected>>
  /\ UNCHANGED lastCycle
  /\ CoFrame

\* Try Again in the error view: setError(null).
TryAgain ==
  /\ mounted /\ error # NoError
  /\ error' = NoError
  /\ CoRender(isLive, NoError, liveContext, videoSrc, videoReady, recognition)
  /\ UNCHANGED <<mounted, currentSuggestion, lastAnalysis, liveContext, inFlight, isLive,
                 isAnalyzing, sharePending, shareStreams, shareRef, warmups, lastRejected>>
  /\ UNCHANGED lastCycle
  /\ CoFrame

\* onClose (Close while not live, Back to Dashboard in the error view): the
\* component unmounts.  The effect cleanups clear the interval; nothing stops
\* the stream or clears the warm-up timer.
CoClose ==
  /\ mounted /\ (error # NoError \/ ~isLive)
  /\ mounted' = FALSE
  /\ interval' = NoInterval
  /\ videoSrc' = 0
  /\ videoReady' = FALSE
  /\ AbortRecognizer(TRUE, recognition)
  /\ UNCHANGED <<currentSuggestion, lastAnalysis, error, liveContext, inFlight, isLive,
                 isAnalyzing, sharePending, shareStreams, shareRef, warmups, lastRejected>>
  /\ UNCHANGED lastCycle
  /\ CoFrame

CoNext ==
  \/ StartScreenShare
  \/ ShareGranted
  \/ ShareRejected
  \/ MetadataLoaded
  \/ WarmupFires
  \/ CoClockTick
  \/ CoAnalysisResolves
  \/ CoRecognitionResult
  \/ CoClearContext
  \/ CoStop
  \/ TrackEnded
  \/ TryAgain
  \/ CoClose
  \/ ToggleListening
  \/ RecognitionStart
  \/ RecognitionError
  \/ RecognitionEnd
  \/ OrphanEnd

\* One live co-creation session, from mount to unmount and after.
SpecCo == CoInit /\ [][CoNext]_vars

\* Either session component, from mount to unmount and after.
SessionNext ==
  \/ ttsBuild = "SessionRecorder" /\ RecNext
  \/ ttsBuild = "CoCreatorSession" /\ CoNext

SpecSession == (Init \/ CoInit) /\ [][SessionNext]_vars

\* ========================================================== the report store

\* localStorage and the video store before anyone has signed up.
StoreEmpty ==
  /\ usersDB = <<>>
  /\ currentEmail = NoEmail
  /\ reportsStore = <<>>
  /\ videoStore = {}
  /\ deleteRequests = {}
  /\ nextId = 0

StorageInit ==
  /\ apiKey = TRUE /\ GemIdle /\ StoreEmpty /\ RecInit /\ HistInit /\ TtsIdle /\ CoIdle /\ MentorsIdle
  /\ ExtIdle

\* saveUser(user).
SaveUser ==
  /\ \E u \in Users :
       LET w == SaveUserIn(usersDB, u)
       IN /\ usersDB' = w.db
          /\ currentEmail' = w.current
          /\ lastUserOp' = [op |-> "saveUser", user |-> u]
  /\ UNCHANGED <<reportsStore, videoStore, deleteRequests, nextId>>
  /\ UNCHANGED <<buildVars, ttsVars, coVars, mentorVars, appVars, listenVars, cycleVars, recVars,
                 histVars>>

\* loginUser(email).
LoginUser ==
  /\ \E e \in Emails :
       LET r == LoginUserIn(usersDB, currentEmail, e)
       IN /\ currentEmail' = r.current
          /\ lastUserOp' = [op |-> "loginUser", user |-> NoUser]
  /\ UNCHANGED <<usersDB, reportsStore, videoStore, deleteRequests, nextId>>
  /\ UNCHANGED <<buildVars, ttsVars, coVars, mentorVars, appVars, listenVars, cycleVars, recVars,
                 histVars>>

\* logoutUser
LogoutUser ==
  /\ currentEmail # NoEmail
  /\ currentEmail' = NoEmail
  /\ lastUserOp' = [op |-> "logoutUser", user |-> NoUser]
  /\ UNCHANGED <<usersDB, reportsStore, videoStore, deleteRequests, nextId>>
  /\ UNCHANGED <<buildVars, ttsVars, coVars, mentorVars, appVars, listenVars, cycleVars, recVars,
                 histVars>>

\* The report a finished session of user `userId` hands to saveReportMetadata.
\* Its videoBlobKey is always the report's identifier.
SessionReportOf(id, userId) ==
  [id |-> id, userId |-> userId, durationSeconds |-> 0, timeline |-> <<>>,
   videoBlobKey |-> id, overallScore |-> 0]

\* The storage calls of one finished session of the logged-in user:
\* saveVideoBlob (which may fail) and then saveReportMetadata, whose calls of
\* deleteVideoBlob may fail as well (the failure is caught and logged).
SaveReport ==
  /\ GetUser(usersDB, currentEmail) # NoUser
  /\ nextId < MaxReports
  /\ nextId' = nextId + 1
  /\ \E blobSaved \in BOOLEAN, blobDeleted \in BOOLEAN :
       LET id == nextId + 1
           report == SessionReportOf(id, GetUser(usersDB, currentEmail).id)
           w == SaveReportMetadata(reportsStore, usersDB, currentEmail, report)
           saved == IF blobSaved THEN videoStore \cup {id} ELSE videoStore
       IN /\ reportsStore' = w.store
          /\ deleteRequests' = deleteRequests \cup w.deleted
          /\ videoStore' = IF blobDeleted THEN saved \ w.deleted ELSE saved
          /\ saveLog' = <<report>> \o saveLog
  /\ UNCHANGED <<usersDB, currentEmail>>
  /\ UNCHANGED <<buildVars, ttsVars, coVars, mentorVars, extVars, recVars, sessionHist,
                 videoFailed>>

StorageNext ==
  \/ SaveUser
  \/ LoginUser
  \/ LogoutUser
  \/ SaveReport

\* The storage service under sign-ups, logins, logouts and finished sessions.
SpecStorage == StorageInit /\ [][StorageNext]_vars

\* ====================================================================== App

\* What is typed into the e-mail field and into the code field.
FormEmails == {"a@gmail.com", " B@Gmail.com", "a@yahoo.com"}
FormOtps == {"123456", "000000"}

\* (formData.get('email')).trim().toLowerCase()
TrimLower(raw) == IF raw = " B@Gmail.com" THEN "b@gmail.com" ELSE raw
\* email.endsWith('@gmail.com')
EndsWithGmail(email) == email \in {"a@gmail.com", "b@gmail.com"}

\* A check that lets every six-digit code through.
OtpAny(otp) == TRUE

\* otp !== '123456' is the rejection.
OtpAccepted(otp) == otp = "123456"

Submitted(form, value) == [form |-> form, value |-> value, seq |-> 1 - lastSubmit.seq]

\* localStorage as App mounts: empty, or left by an earlier visit in which
\* a@gmail.com signed up and either stayed logged in or logged out.
AppInit ==
  /\ apiKey = TRUE /\ GemIdle /\ RecInit /\ HistInit /\ TtsIdle /\ CoIdle /\ MentorsIdle
  /\ ExtIdle
  /\ usersDB \in {<<>>, [e \in {RecUserEmail} |-> UserOf(e)]}
  /\ currentEmail \in {NoEmail} \cup DOMAIN usersDB
  /\ reportsStore = <<>>
  /\ videoStore = {}
  /\ deleteRequests = {}
  /\ nextId = 0

AppFrame ==
  UNCHANGED <<buildVars, recVars, histVars, ttsVars, coVars, mentorVars, userVars, listenVars,
              cycleVars,
              reportsStore, videoStore, deleteRequests, nextId>>

\* Load user on mount.
AppMount ==
  /\ ~appLoaded
  /\ appLoaded' = TRUE
  /\ LET storedUser == GetUser(usersDB, currentEmail)
     IN IF storedUser # NoUser
        THEN appUser' = storedUser /\ view' = "dashboard"
        ELSE UNCHANGED <<appUser, view>>
  /\ lastSubmit' = Submitted("mount", "")
  /\ UNCHANGED <<authStep, pendingEmail, otpError, usersDB, currentEmail>>
  /\ AppFrame

\* handleEmailSubmit
HandleEmailSubmit ==
  /\ appLoaded /\ view = "onboarding" /\ authStep = "email"
  /\ \E raw \in FormEmails :
       LET email == TrimLower(raw)
       IN /\ lastSubmit' = Submitted("email", raw)
          /\ IF ~EndsWithGmail(email)
             THEN UNCHANGED <<pendingEmail, authStep, otpError>>
             ELSE pendingEmail' = email /\ authStep' = "otp" /\ otpError' = FALSE
  /\ UNCHANGED <<appLoaded, appUser, view, usersDB, currentEmail>>
  /\ AppFrame

\* handleOtpSubmit
HandleOtpSubmit ==
  /\ appLoaded /\ view = "onboarding" /\ authStep = "otp"
  /\ \E otp \in FormOtps :
       /\ lastSubmit' = Submitted("otp", otp)
       /\ IF ~OtpAccepted(otp)
          THEN /\ otpError' = TRUE
               /\ UNCHANGED <<appUser, view, authStep, currentEmail>>
          ELSE IF CheckUserExists(usersDB, pendingEmail)
               THEN LET r == LoginUserIn(usersDB, currentEmail, pendingEmail)
                    IN /\ currentEmail' = r.current
                       /\ appUser' = r.value
                       /\ view' = "dashboard"
                       /\ UNCHANGED <<authStep, otpError>>
               ELSE /\ authStep' = "profile"
                    /\ UNCHANGED <<appUser, view, otpError, currentEmail>>
  /\ UNCHANGED <<appLoaded, pendingEmail, usersDB>>
  /\ AppFrame

\* The Change Email button of the code form.
ChangeEmail ==
  /\ appLoaded /\ view = "onboarding" /\ authStep = "otp"
  /\ authStep' = "email"
  /\ UNCHANGED <<appLoaded, appUser, view, pendingEmail, otpError, lastSubmit, usersDB,
                 currentEmail>>
  /\ AppFrame

\* handleProfileSubmit
HandleProfileSubmit ==
  /\ appLoaded /\ view = "onboarding" /\ authStep = "profile"
  /\ \E firstName \in FirstNames :
       LET newUser == [id |-> IdOf(pendingEmail), email |-> pendingEmail,
                       firstName |-> firstName]
           w == SaveUserIn(usersDB, newUser)
       IN /\ usersDB' = w.db
          /\ currentEmail' = w.current
          /\ appUser' = newUser
          /\ lastSubmit' = Submitted("profile", firstName)
  /\ view' = "dashboard"
  /\ UNCHANGED <<appLoaded, authStep, pendingEmail, otpError>>
  /\ AppFrame

\* handleLogout (the header is rendered with a user, outside the onboarding
\* and session views).
HandleLogout ==
  /\ appLoaded /\ appUser # NoUser /\ view \in {"dashboard", "report"}
  /\ currentEmail' = NoEmail
  /\ appUser' = NoUser
  /\ view' = "onboarding"
  /\ authStep' = "email"
  /\ pendingEmail' = ""
  /\ UNCHANGED <<appLoaded, otpError, lastSubmit, usersDB>>
  /\ AppFrame

\* The handlers that only switch between the views behind the login:
\* startSession and onViewReport on the dashboard, handleSessionComplete,
\* handleSessionCancel, the report's onBack and the header's logo.
SwitchView ==
  /\ appLoaded /\ appUser # NoUser
  /\ \/ view = "dashboard" /\ view' \in {"recording", "co-creating", "report"}
     \/ view = "recording" /\ view' \in {"report", "dashboard"}
     \/ view \in {"co-creating", "report"} /\ view' = "dashboard"
  /\ UNCHANGED <<appLoaded, appUser, authStep, pendingEmail, otpError, lastSubmit, usersDB,
                 currentEmail>>
  /\ AppFrame

AppNext ==
  \/ AppMount
  \/ HandleEmailSubmit
  \/ HandleOtpSubmit
  \/ ChangeEmail
  \/ HandleProfileSubmit
  \/ HandleLogout
  \/ SwitchView

\* App from its mount on: onboarding, the views behind it, logout.
SpecApp == AppInit /\ [][AppNext]_vars

\* ============================================================== the mentors

\* DEFAULT_MENTORS, in template order (two of the six built-in mentors).
DEFAULT_MENTORS == <<[id |-> "yoga", name |-> "Yoga Teacher"], [id |-> "coworker", name |-> "Co-Worker"]>>
DefaultIds == {DEFAULT_MENTORS[i].id : i \in 1..Len(DEFAULT_MENTORS)}
\* The mentors ProfileModal may hand to saveMentor: an edited built-in mentor
\* keeps its id, a new one gets a fresh id.
MentorInputs == [id : DefaultIds \cup {"m1", "m2"}, name : {"Edited", "Edited again"}]

\* stored ? JSON.parse(stored) : []
CustomMentors(store) == IF store.present THEN store.list ELSE <<>>

\* getMentors
GetMentors(store) ==
  LET customMentors == CustomMentors(store)
      Override(dm) ==
        IF \E i \in 1..Len(customMentors) : customMentors[i].id = dm.id
        THEN \* a Map built from the list keeps the last entry of an id
             customMentors[CHOOSE i \in 1..Len(customMentors) :
                             /\ customMentors[i].id = dm.id
                             /\ \A j \in (i + 1)..Len(customMentors) : customMentors[j].id # dm.id]
        ELSE dm
      mergedDefaults == [i \in 1..Len(DEFAULT_MENTORS) |-> Override(DEFAULT_MENTORS[i])]
      pureCustoms == SelectSeq(customMentors, LAMBDA cm : cm.id \notin DefaultIds)
  IN mergedDefaults \o pureCustoms

\* A saveMentor that pushes the mentor without looking for its id.
SaveMentorAppends(store, mentor) ==
  [present |-> TRUE, list |-> Append(CustomMentors(store), mentor)]

\* saveMentor: what it writes under MENTORS_KEY.
SaveMentorIn(store, mentor) ==
  LET customMentors == CustomMentors(store)
      found == {i \in 1..Len(customMentors) : customMentors[i].id = mentor.id}
  IN [present |-> TRUE,
      list |-> IF found # {}
               THEN [customMentors EXCEPT ![CHOOSE i \in found : \A j \in found : i <= j] = mentor]
               ELSE Append(customMentors, mentor)]

\* deleteMentor that leaves the override of a built-in mentor in place.
DeleteMentorKeepsOverride(store, id) ==
  IF ~store.present THEN store
  ELSE IF id \in DefaultIds THEN store
  ELSE [present |-> TRUE, list |-> SelectSeq(store.list, LAMBDA m : m.id # id)]

\* deleteMentor: what MENTORS_KEY holds afterwards (both branches filter the
\* id out; nothing is written when the key is absent).
DeleteMentorIn(store, id) ==
  IF ~store.present THEN store
  ELSE [present |-> TRUE, list |-> SelectSeq(store.list, LAMBDA m : m.id # id)]

MentorsInit ==
  /\ apiKey = TRUE /\ GemIdle /\ StoreInit /\ RecInit /\ HistInit /\ TtsIdle /\ CoIdle /\ MentorsIdle
  /\ ExtIdle

MentorsFrame ==
  UNCHANGED <<buildVars, storeVars, recVars, histVars, ttsVars, coVars, extVars>>

\* ProfileModal's submit: saveMentor(mentor).
SaveMentor ==
  /\ \E mentor \in MentorInputs :
       /\ mentorsStore' = SaveMentorIn(mentorsStore, mentor)
       /\ lastMentorOp' = [op |-> "save", id |-> mentor.id, removed |-> 0]
  /\ MentorsFrame

\* Dashboard's handleDeleteMentor: deleteMentor(id) for a mentor it lists.
DeleteMentor ==
  /\ \E i \in 1..Len(GetMentors(mentorsStore)) :
       LET id == GetMentors(mentorsStore)[i].id
           after == DeleteMentorIn(mentorsStore, id)
       IN /\ mentorsStore' = after
          /\ lastMentorOp' = [op |-> "delete", id |-> id,
                              removed |-> Len(mentorsStore.list) - Len(after.list)]
  /\ MentorsFrame

MentorsNext ==
  \/ SaveMentor
  \/ DeleteMentor

\* The mentor list under any sequence of saves and deletions.
SpecMentors == MentorsInit /\ [][MentorsNext]_vars

\* =================================================================== claims

AllTracksEnded == \A t \in TrackIds : tracks[t] = "ended"
\* stopRecording or handleUnsafeContent has stopped the recorder.
SessionStopped == mediaRecorder = "inactive"

\* C1: once an UNSAFE result has been handled, every track of the stream is
\* stopped in that same step, and no AnalysisPoint is appended to the history
\* in any later step, not even by a call that was in flight at that moment.
C1_UnsafeEndsHistory ==
  [][/\ (~unsafeHandled /\ unsafeHandled') => \A t \in TrackIds : tracks'[t] = "ended"
     /\ unsafeHandled => analysisPoints' = analysisPoints]_vars

\* C2: after any stop (by the user, by the countdown or on UNSAFE) every track
\* of the acquired stream is stopped and the stream handle is null.
C2_StopReleasesStream == SessionStopped => AllTracksEnded /\ ~streamRef

\* C3: once the component is no longer mounted no acquired stream has a live
\* track, also when getUserMedia resolves after the unmount.
C3_NoLiveTrackAfterUnmount == ~mounted => \A t \in TrackIds : tracks[t] # "live"

\* C4: an analysis call that settles after the session has been stopped
\* changes neither the suggestion, the latest point, the point history nor the
\* error state.
C4_LateResultIsNoOp ==
  [][(SessionStopped /\ inFlight' < inFlight)
       => UNCHANGED <<currentSuggestion, lastAnalysis, analysisPoints, error>>]_vars

\* C5: once an UNSAFE result has been handled the session is in the safety
\* error state, and no report is persisted or handed to onComplete from then
\* on, even if a stop was already assembling one.
C5_UnsafeWins ==
  [][unsafeHandled' =>
       /\ mounted' => error' = ERR_SAFETY
       /\ unsafeHandled => (completed' = completed /\ reportsStore' = reportsStore)]_vars

Min(a, b) == IF a <= b THEN a ELSE b
IdsOf(reports) == [i \in 1..Len(reports) |-> reports[i].id]
\* The reports user `id` has saved, newest first.
SavedBy(id) == SelectSeq(saveLog, LAMBDA r : r.userId = id)

\* C6: for the logged-in user getReportsMetadata returns exactly the
\* min(n, 5) reports that user saved most recently, newest first.
C6_FiveMostRecent ==
  GetUser(usersDB, currentEmail) # NoUser =>
    LET mine == SavedBy(GetUser(usersDB, currentEmail).id)
    IN IdsOf(GetReportsMetadata(reportsStore, usersDB, currentEmail))
         = IdsOf(SubSeq(mine, 1, Min(Len(mine), REPORT_LIMIT)))

\* C7: a save made while one user is current never removes or alters the
\* stored reports of any other user.
C7_RetentionPerUser ==
  [][\A e \in DOMAIN usersDB :
       e # currentEmail =>
         GetReportsMetadata(reportsStore', usersDB, e)
           = GetReportsMetadata(reportsStore, usersDB, e)]_vars

\* C8: when the countdown stops a session that collected only SAFE points, the
\* report's timeline has one entry per tick that appended a point and its
\* durationSeconds is the nominal session duration.
C8_TimeoutReport ==
  (stopCause = "timeout" /\ ~unsafeHandled /\ Len(completed) > 0) =>
    /\ Len(completed[1].timeline) = pointsAtStop
    /\ completed[1].durationSeconds = SessionSeconds

\* C9: analyzeFrame always resolves with an AnalysisPoint; it never rejects.
C9_AnalyzeFrameResolves == gemPromise.settled # "rejected"

\* C10: when summary generation fails the session ends in the error state
\* showing the failed-to-process message, no report metadata is persisted and
\* onComplete is never invoked.
C10_SummaryFailureIsFatal ==
  summaryFailed => error = ERR_FAILED /\ completed = <<>> /\ reportsStore = <<>>

\* The call of generateFinalSummary failed: no API key in the build, or, for a
\* non-empty history, the remote call threw or its text is not JSON.
SummaryCallFailed ==
  \/ ~apiKey
  \/ /\ Len(sumRequest.points) > 0
     /\ \/ sumRequest.response.throws
        \/ LET text == IF sumRequest.response.text = <<>> THEN <<"{", "}">>
                        ELSE sumRequest.response.text
           IN JsonParse(ExtractObject(StripFences(text)), EmptyFields).kind = "error"

\* C11: on any failure (missing API key, remote call failure, unparsable
\* response) generateFinalSummary resolves with exactly one placeholder insight
\* and overallScore 0; it does not reject.
C11_SummaryDegrades ==
  (sumPromise # SumNotCalled /\ SummaryCallFailed) =>
    /\ sumPromise.settled = "resolved"
    /\ Len(sumPromise.value.keyInsights) = 1
    /\ sumPromise.value.overallScore = 0

\* C12: when saveVideoBlob fails during stop the handler goes on to request
\* the summary without touching the error state, and when the handler of such
\* a session finishes, the report is persisted and onComplete has been invoked
\* with it.  The handler of such a session ends in its catch block only when
\* the summary request was rejected or saveReportMetadata failed.
C12_VideoFailureNotFatal ==
  /\ [][(stopPhase = "savingVideo" /\ videoFailed')
          => (stopPhase' = "summarizing" /\ error' = error /\ isProcessing' = isProcessing)]_vars
  /\ []((videoFailed /\ stopPhase = "done")
          => (completed = <<pendingReport>> /\ reportsStore = <<pendingReport>>))
  /\ [][(videoFailed /\ stopPhase' = "failed" /\ stopPhase # "failed")
          => stopPhase \in {"summarizing", "savingMeta"}]_vars

\* A session whose video blob was not stored has completed with its report.
C12_Witness == videoFailed /\ stopPhase = "done" /\ Len(completed) = 1 /\ error = NoError

\* C13: a report handed to onComplete carries a videoBlobKey only when
\* saveVideoBlob stored a blob under that key; after a failed save it has none.
C13_KeyOnlyWhenStored ==
  \A i \in 1..Len(completed) :
    /\ videoFailed => completed[i].videoBlobKey = NoKey
    /\ completed[i].videoBlobKey # NoKey => completed[i].videoBlobKey \in videoStore

\* C14: disabling voice cancels the utterance in flight, no utterance is
\* active or started while voice is disabled, and re-enabling voice while the
\* suggestion is still the one shown when voice was disabled starts no
\* utterance.
C14_VoiceToggleIdempotent ==
  /\ [][(isVoiceEnabled /\ ~isVoiceEnabled') => speechQueue' = <<>>]_vars
  /\ [][~isVoiceEnabled' => spoken' = spoken]_vars
  /\ [][(~isVoiceEnabled /\ isVoiceEnabled' /\ currentSuggestion' = mutedText)
          => spoken' = spoken]_vars

\* The effect's dependencies differ between the two states of a step.
TtsDepsChanged ==
  <<currentSuggestion, isVoiceEnabled, TtsLive>>' # <<currentSuggestion, isVoiceEnabled, TtsLive>>

\* C15: every change of the suggestion, the voice flag or the live flag
\* cancels what was in flight, so that afterwards speechSynthesis holds the
\* new utterance alone or nothing; an utterance is started only when voice is
\* enabled, the session is live and the text is non-empty; at most one
\* utterance is ever active.
C15_OneUtterance ==
  /\ [][(TtsDepsChanged /\ mounted')
          => speechQueue' = IF spoken' > spoken THEN <<currentSuggestion'>> ELSE <<>>]_vars
  /\ [][spoken' > spoken => (isVoiceEnabled' /\ TtsLive' /\ currentSuggestion' # "")]_vars
  /\ [](Len(speechQueue) <= 1)

\* C16: in live co-creation a newly recognized instruction starts exactly one
\* analysis cycle at once (one analyzeFrame call when a frame can be captured)
\* and leaves the analysis interval as it was: neither cleared nor set anew,
\* so its next tick comes when it would have come.
C16_InstructionKeepsSchedule ==
  [][(isLive /\ mounted /\ liveContext' # liveContext /\ liveContext' # "")
       => /\ interval' = interval
          /\ inFlight' = IF videoSrc # 0 /\ videoReady THEN inFlight + 1 ELSE inFlight]_vars

\* C17: when getDisplayMedia is rejected the session shows a message that
\* belongs to that reason alone (denied or cancelled, blocked by policy, any
\* other failure), does not become live and starts no analysis timer.
C17_RejectionSpecificMessage ==
  [][(mounted /\ sharePending' < sharePending /\ Len(shareStreams') = Len(shareStreams))
       => /\ error' # NoError
          /\ \A r \in RejectReasons \ {lastRejected'} : error' # ShareErrorMessage(r)
          /\ isLive' = isLive
          /\ interval' = interval
          /\ warmups' = warmups]_vars

\* The call of captureFrame had both refs set.
CaptureRefsSet == captureInput.hasVideo /\ captureInput.hasCanvas

C19_DownscaleToMax ==
  (captureResult.called /\ captureResult.frame = "data") =>
    LET max == IF captureInput.build = "SessionRecorder" THEN MAX_WIDTH_RECORDER
               ELSE MAX_WIDTH_SCREEN
        w == captureInput.videoWidth
        h == captureInput.videoHeight
    IN IF w > max
       THEN /\ captureResult.width = max
            /\ (captureResult.height - 1) * w <= h * max
            /\ h * max <= (captureResult.height + 1) * w
       ELSE captureResult.width = w /\ captureResult.height = h

\* The mentors of a list other than the one with the given id, in order.
OtherMentors(list, id) == SelectSeq(list, LAMBDA m : m.id # id)

\* C20: after deleteMentor(id) getMentors returns the unmodified template for
\* a built-in id and no mentor with that id for a custom id, and every other
\* mentor is returned as before, in the same order.
C20_DeleteMentor ==
  [][lastMentorOp'.op = "delete" =>
       LET id == lastMentorOp'.id
           before == GetMentors(mentorsStore)
           after == GetMentors(mentorsStore')
       IN /\ \A i \in 1..Len(DEFAULT_MENTORS) :
               DEFAULT_MENTORS[i].id = id => after[i] = DEFAULT_MENTORS[i]
          /\ id \notin DefaultIds => \A i \in 1..Len(after) : after[i].id # id
          /\ OtherMentors(after, id) = OtherMentors(before, id)]_vars

\* A deletion removed the stored override of a built-in mentor while a custom
\* mentor was stored as well.
C20_Witness ==
  /\ lastMentorOp.op = "delete" /\ lastMentorOp.id \in DefaultIds
  /\ lastMentorOp.removed = 1
  /\ Len(mentorsStore.list) > 0

\* C21: after saveUser(u), checkUserExists(u.email) is true, loginUser(u.email)
\* returns a user equal to u, and getUser() returns a user equal to u, before
\* and after that login, whatever calls for other e-mails came earlier.
C21_SaveThenRetrieve ==
  lastUserOp.op = "saveUser" =>
    LET u == lastUserOp.user
        login == LoginUserIn(usersDB, currentEmail, u.email)
    IN /\ CheckUserExists(usersDB, u.email)
       /\ login.value = u
       /\ GetUser(usersDB, currentEmail) = u
       /\ GetUser(usersDB, login.current) = u

\* A second user is saved over an entry of the same e-mail, with another
\* e-mail stored as well.
C21_Witness ==
  /\ lastUserOp.op = "saveUser"
  /\ lastUserOp.user.firstName = "Bea"
  /\ DOMAIN usersDB = Emails
  /\ \E e \in Emails : usersDB[e].firstName = "Ann"

\* The accepted code logs in the stored user of the pending e-mail.
OtpLoginStep ==
  /\ authStep = "otp" /\ lastSubmit' # lastSubmit
  /\ lastSubmit'.form = "otp" /\ lastSubmit'.value = "123456"
  /\ EndsWithGmail(pendingEmail) /\ CheckUserExists(usersDB, pendingEmail)
  /\ appUser' = usersDB[pendingEmail]
  /\ GetUser(usersDB', currentEmail') = appUser'

\* The profile form creates and stores a user for the pending e-mail.
ProfileStep ==
  /\ authStep = "profile" /\ lastSubmit' # lastSubmit /\ lastSubmit'.form = "profile"
  /\ EndsWithGmail(pendingEmail) /\ ~CheckUserExists(usersDB, pendingEmail)
  /\ appUser'.email = pendingEmail
  /\ CheckUserExists(usersDB', pendingEmail)
  /\ GetUser(usersDB', currentEmail') = appUser'

\* The mount effect finds the current user an earlier visit left in storage.
MountStep ==
  /\ ~appLoaded /\ appLoaded'
  /\ GetUser(usersDB, currentEmail) # NoUser
  /\ appUser' = GetUser(usersDB, currentEmail)
  /\ UNCHANGED <<usersDB, currentEmail>>

\* The code form follows an accepted e-mail, the profile form an accepted code
\* for an e-mail without a user.
AuthStepOrder ==
  /\ (authStep # "otp" /\ authStep' = "otp") =>
       /\ authStep = "email" /\ lastSubmit' # lastSubmit /\ lastSubmit'.form = "email"
       /\ EndsWithGmail(TrimLower(lastSubmit'.value))
       /\ pendingEmail' = TrimLower(lastSubmit'.value)
  /\ (authStep # "profile" /\ authStep' = "profile") =>
       /\ authStep = "otp" /\ lastSubmit' # lastSubmit /\ lastSubmit'.form = "otp"
       /\ lastSubmit'.value = "123456"
       /\ ~CheckUserExists(usersDB, pendingEmail)
  /\ pendingEmail' # pendingEmail => pendingEmail' = "" \/ authStep = "email"

\* A rejected e-mail or code changes neither the step nor the login.
RejectedKeeps ==
  (/\ lastSubmit' # lastSubmit
   /\ \/ lastSubmit'.form = "email" /\ ~EndsWithGmail(TrimLower(lastSubmit'.value))
      \/ lastSubmit'.form = "otp" /\ lastSubmit'.value # "123456")
    => UNCHANGED <<authStep, view, appUser, pendingEmail, usersDB, currentEmail>>

DashboardHasUser ==
  view = "dashboard" => (appUser # NoUser /\ GetUser(usersDB, currentEmail) = appUser)

\* C22 as stated: the dashboard is entered from onboarding only by the
\* accepted code of a stored user or by the profile form, each after an
\* accepted e-mail; rejected input changes nothing; the dashboard always has
\* a current user.
C22_Original ==
  /\ [][/\ (view = "onboarding" /\ view' = "dashboard") => (OtpLoginStep \/ ProfileStep)
        /\ AuthStepOrder
        /\ RejectedKeeps]_vars
  /\ []DashboardHasUser

\* C22: the same, with the third way in: the mount effect of a visit that
\* finds a current user in storage.
C22_Onboarding ==
  /\ [][/\ (view = "onboarding" /\ view' = "dashboard")
             => (OtpLoginStep \/ ProfileStep \/ MountStep)
        /\ AuthStepOrder
        /\ RejectedKeeps]_vars
  /\ []DashboardHasUser

\* A sign-up with an e-mail typed in capitals, after another user's.
C22_Witness ==
  /\ view = "dashboard" /\ lastSubmit.form = "profile"
  /\ appUser.email = "b@gmail.com" /\ DOMAIN usersDB = Emails

\* C23: once handleStop has ended a co-creation session (not live, stream
\* released), neither the analysis interval nor a warm-up timeout of that
\* session is still scheduled.
C23_NoTimerAfterStop ==
  (mounted /\ ~isLive /\ shareRef = 0 /\ Len(shareStreams) > 0)
    => (~interval.active /\ warmups = 0)

\* C24: when the countdown stops the session, the recording has lasted 15
\* minutes.
C24_AutoStopAfter15Minutes ==
  stopCause = "timeout" => (SessionSeconds - timeLeft) * SecondsPerTick = 15 * 60

\* A step in which performAnalysis ran and captureFrame gave no frame.
NoFrameCycle == lastCycle' # lastCycle /\ lastCycle'.frame = "no"

\* C25: a capture-and-analyze cycle whose capture yields no frame issues no
\* analysis call and leaves the suggestion, the latest point, the point
\* history, the analysing flag, the live flag and the error state as they
\* were.  (The recorder's first cycle runs in the step that enters Live, so
\* for it the live flag is the one that step set.)
C25_NoFrameNoChange ==
  [][NoFrameCycle =>
       /\ UNCHANGED <<inFlight, currentSuggestion, lastAnalysis, analysisPoints, isAnalyzing,
                      isLive, error>>
       /\ ttsBuild = "SessionRecorder" => isRecording']_vars

C25_Witness ==
  /\ ttsBuild = "CoCreatorSession" /\ mounted /\ isLive /\ interval.active
  /\ lastCycle.frame = "no" /\ ~isAnalyzing /\ inFlight = 0

UnsafeFree(points) == \A i \in 1..Len(points) : points[i].safetyStatus # UNSAFE

\* C26: a point with safetyStatus UNSAFE is never stored: the point history,
\* the latest point, the points handed to the stop handler and the timeline of
\* every assembled, completed or saved report hold no UNSAFE point, and the
\* displayed suggestion is never that of an UNSAFE point.
C26_UnsafeNeverStored ==
  /\ UnsafeFree(analysisPoints)
  /\ UnsafeFree(lastAnalysis)
  /\ UnsafeFree(onstop.points)
  /\ UnsafeFree(pendingReport.timeline)
  /\ \A i \in 1..Len(completed) : UnsafeFree(completed[i].timeline)
  /\ \A i \in 1..Len(saveLog) : UnsafeFree(saveLog[i].timeline)
  /\ currentSuggestion # OkFields(UNSAFE).suggestion

C26_Witness ==
  /\ ttsBuild = "SessionRecorder" /\ unsafeHandled /\ error = ERR_SAFETY
  /\ Len(analysisPoints) > 0 /\ Len(lastAnalysis) > 0

\* A step in which a mounted session component handles an UNSAFE result.
UnsafeHandledStep ==
  /\ mounted
  /\ \/ ~unsafeHandled /\ unsafeHandled'
     \/ error # ERR_CO_SAFETY /\ error' = ERR_CO_SAFETY

\* C27: when an UNSAFE result is handled, the pending spoken instruction
\* (liveContext) is cleared, in both session variants.
C27_UnsafeClearsInstruction ==
  [][UnsafeHandledStep => liveContext' = ""]_vars

\* A step in which recognition.onresult ran.
ResultStep == recognition = "listening" /\ recognition' = "result"

\* A step of the Clear button: the transcript becomes empty and the
\* recognizer is not touched.
ClearStep == liveContext' = "" /\ recognition' = recognition /\ isRecording /\ isRecording'

\* C28: in the recorder the transcript changes only by a recognition result
\* or by Clear, so it stays the last recognized utterance across analysis
\* ticks, and every analysis call carries the transcript of that moment as
\* the user instruction.
C28_TranscriptHeld ==
  [][/\ liveContext' # liveContext => (ResultStep \/ ClearStep)
     /\ inFlight' > inFlight =>
          (lastCycle'.frame = "yes" /\ lastCycle'.instruction = liveContext')]_vars

C28_Witness ==
  /\ mounted /\ isRecording /\ liveContext \in Transcripts
  /\ recognition = "idle" /\ orphans = 0 /\ ~isListening
  /\ inFlight = MaxInFlight
  /\ lastCycle.frame = "yes" /\ lastCycle.instruction = liveContext

\* A step in which recognition.onerror ran.
ErrorStep == recognition' \in RecognitionErrors /\ recognition' # recognition

\* A step in which recognition.onend ran, for the current recognizer or for
\* one that an effect cleanup aborted.
EndStep ==
  \/ recognition # "idle" /\ recognition' = "idle" /\ orphans' = orphans
  \/ orphans' < orphans

\* C29: after any recognition outcome (the end that follows a result or a
\* stop, any error, the end of an aborted recognizer) the listening flag of
\* the mounted component is false, and a recognition error changes neither
\* the recording flag, nor the live flag, nor the error state.
C29_RecognitionOutcomes ==
  [][/\ (mounted /\ (ErrorStep \/ EndStep)) => ~isListening'
     /\ ErrorStep => UNCHANGED <<isRecording, isLive, error>>]_vars

C29_Witness ==
  /\ mounted /\ recognition = "network" /\ ~isListening
  /\ isRecording /\ error = NoError

\* C30: in the recorder, recognizing or clearing a spoken instruction does
\* not initiate an analysis cycle: a step that changes the transcript runs no
\* performAnalysis and issues no analysis call.
C30_TranscriptStartsNoCycle ==
  [][liveContext' # liveContext => (lastCycle' = lastCycle /\ inFlight' = inFlight)]_vars

\* The report of a user-initiated stop, once assembled, against the history
\* and the countdown of the session.
UserStopReport ==
  (stopCause = "user" /\ pendingReport # NoReport) =>
    /\ pointsAtStop <= Len(analysisPoints)
    /\ pendingReport.timeline = SubSeq(analysisPoints, 1, pointsAtStop)
    /\ pendingReport.durationSeconds = SessionSeconds - timeLeft
    /\ \A i \in 1..Len(completed) : completed[i] = pendingReport

\* An assembled report keeps its timeline, and a completed report is never
\* altered.
ReportFrozen ==
  /\ pendingReport # NoReport => pendingReport'.timeline = pendingReport.timeline
  /\ \A i \in 1..Len(completed) :
       i <= Len(completed') /\ completed'[i] = completed[i]

\* C31: for a user-initiated stop the report's timeline is the sequence of
\* points appended up to the stop, in order, its durationSeconds is the number
\* of seconds counted down since the recording started, and the timeline of
\* an assembled report never changes, even when a late result arrives.
C31_UserStopReport == []UserStopReport /\ [][ReportFrozen]_vars

C31_Witness ==
  /\ stopCause = "user" /\ Len(completed) = 1
  /\ Len(completed[1].timeline) = 1 /\ Len(analysisPoints) = 2
  /\ completed[1].durationSeconds \in 1..(SessionSeconds - 1)

Scores(point) == <<point.postureScore, point.focusScore, point.lightingScore>>

\* The response text holds no JSON value, even after the fences and the text
\* around the braces are removed.
Unparsable(text) == JsonParse(ExtractObject(StripFences(text)), EmptyFields).kind = "error"

\* C32: analyzeFrame returns UNKNOWN with scores 0 when the remote call fails,
\* UNKNOWN with scores 5 when the response is empty or cannot be parsed, and
\* the scores and the safety status of a response that is a JSON object.
C32_DegradedPoints ==
  gemPromise.settled = "resolved" =>
    LET point == gemPromise.value
    IN /\ gemResponse.throws =>
            (point.safetyStatus = UNKNOWN /\ Scores(point) = <<0, 0, 0>>)
       /\ (~gemResponse.throws /\ (gemResponse.text = <<>> \/ Unparsable(gemResponse.text))) =>
            (point.safetyStatus = UNKNOWN /\ Scores(point) = <<5, 5, 5>>)
       /\ (~gemResponse.throws /\ gemResponse.text = <<"{", "body", "}">>) =>
            /\ Scores(point) = Scores(gemResponse.fields)
            /\ point.safetyStatus = gemResponse.fields.safetyStatus

\* C38: every AnalysisPoint that analyzeFrame returns has a safetyStatus in
\* {SAFE, UNSAFE, UNKNOWN}, whatever the remote put in that field.
C38_SafetyStatusInEnum ==
  gemPromise.settled = "resolved" => gemPromise.value.safetyStatus \in {SAFE, UNSAFE, UNKNOWN}

\* A step that issues a device-acquisition request: getUserMedia of the
\* recorder, getDisplayMedia of the co-creator.
AcquisitionRequested == (camera # "pending" /\ camera' = "pending") \/ sharePending' > sharePending

\* A step that issues a call of the report assembly: saveVideoBlob,
\* generateFinalSummary or saveReportMetadata.
AssemblyCall ==
  /\ stopPhase' # stopPhase
  /\ stopPhase' \in {"stopQueued", "savingVideo", "summarizing", "savingMeta", "done"}

\* C33: nothing is retried automatically.  Once the acquisition has failed
\* (the error view is shown) no acquisition request is issued until the user
\* leaves the error view, and once the assembly of the report has failed no
\* further summary or persistence call is issued and nothing more is saved.
C33_NoAutomaticRetry ==
  [][/\ (error # NoError \/ camera = "denied") => ~AcquisitionRequested
     /\ (stopPhase = "failed" \/ error = ERR_FAILED) =>
          (~AssemblyCall /\ UNCHANGED <<reportsStore, videoStore, completed, saveLog>>)]_vars

C33_Witness ==
  /\ ttsBuild = "SessionRecorder" /\ mounted
  /\ stopPhase = "failed" /\ error = ERR_FAILED /\ inFlight = 0 /\ recognition = "idle"

\* C34: after any saves and deletions getMentors returns every built-in id
\* exactly once, as the template or its stored override, in template order,
\* then the custom mentors, and no id twice.
C34_MentorListShape ==
  LET mentors == GetMentors(mentorsStore)
      stored == CustomMentors(mentorsStore)
      n == Len(DEFAULT_MENTORS)
  IN /\ Len(mentors) >= n
     /\ \A i \in 1..n :
          /\ mentors[i].id = DEFAULT_MENTORS[i].id
          /\ \/ mentors[i] = DEFAULT_MENTORS[i]
             \/ \E k \in 1..Len(stored) : stored[k] = mentors[i]
     /\ \A i \in (n + 1)..Len(mentors) :
          /\ mentors[i].id \notin DefaultIds
          /\ \E k \in 1..Len(stored) : stored[k] = mentors[i]
     /\ \A k \in 1..Len(stored) : \E i \in 1..Len(mentors) : mentors[i] = stored[k]
     /\ \A i, j \in 1..Len(mentors) : mentors[i].id = mentors[j].id => i = j

C34_Witness ==
  /\ lastMentorOp.op = "delete" /\ lastMentorOp.removed = 1
  /\ Len(GetMentors(mentorsStore)) = Len(DEFAULT_MENTORS) + 1
  /\ \E i \in 1..Len(DEFAULT_MENTORS) : GetMentors(mentorsStore)[i] # DEFAULT_MENTORS[i]

\* C35: while the co-creation session is live after a successful
\* startScreenShare, the acquired stream is the source of the mounted video
\* element.
C35_LiveStreamAttached ==
  (mounted /\ isLive /\ error = NoError /\ shareRef # 0) => videoSrc = shareRef

C37_NoBlobWithoutReport ==
  \A key \in videoStore :
    \E i \in 1..Len(reportsStore) : reportsStore[i].videoBlobKey = key

\* C39: in the co-creation session the analysing indicator is true whenever
\* at least one analysis call is in flight and false when none is.
C39_IndicatorTracksCalls ==
  mounted => (isAnalyzing <=> inFlight > 0)

====
